---- MODULE Spec2Model ----
(***************************************************************************)
(* Campaign / delivery scheduling and status aggregation of the email app  *)
(* (src/src/utils/db.py, src/src/utils/time.py).                           *)
(*                                                                         *)
(* The store is the TinyDB file: a table is a function from the doc ids    *)
(* that exist to their rows.  A timestamp is kept the way the code keeps   *)
(* it, as the ISO string isoformat() produces, and compared as a string.   *)
(* Only the part of the string that differs between two timestamps of the  *)
(* model is represented: the seconds digit, then either "Z" or "." , the   *)
(* first microsecond digit and "Z" (isoformat() leaves the fraction out    *)
(* when microsecond = 0).  A string is the sequence of its code points.    *)
(***************************************************************************)
EXTENDS Integers, Sequences, FiniteSets, TLC

VARIABLES profiles, emails, deliveries, nextEmailId, nextDeliveryId, now, last,
          lock, sched, reader, worker, calls, user, settings, probe,
          handles, templates

vars == <<profiles, emails, deliveries, nextEmailId, nextDeliveryId, now, last,
          lock, sched, reader, worker, calls, user, settings, probe,
          handles, templates>>

storeVars == <<profiles, emails, deliveries, nextEmailId, nextDeliveryId>>

txnVars == <<lock, sched, reader, worker, calls>>

\* the user's own profile, the timezone settings, the arguments and result
\* of a function that is looked at on its own, the doc id counters of the
\* store handles, and the templates table
auxVars == <<user, settings, probe, handles, templates>>

(* ------------------------------ bounds --------------------------------- *)
\* doc ids handed out per table
MaxCampaigns == 2

MaxDeliveries == 3

\* delivery rows, and the largest count, of a campaign row found in a store
\* that was edited or left behind by an interrupted call (SpecDirty)
MaxDirty == 2

\* campaigns scheduled while profiles are added and deleted (SpecProfiles)
MaxProfileCampaigns == 1

\* largest doc id the profiles table hands out (SpecProfiles)
MaxProfileId == 3

\* longest search term and subject (SpecFun)
MaxTermLen == 2

\* last wall-clock hour a schedule time is entered for (SpecFun)
MaxHour == 8

\* last second of the clock
MaxSec == 0

\* campaigns scheduled while a page reads (SpecTxn)
MaxTxnCampaigns == 1

\* campaigns scheduled while the worker is followed for ever (SpecWorkerLive)
MaxLiveCampaigns == 1

\* deliveries two processes race on (SpecRace)
MaxRaceDeliveries == 2

\* the largest doc id the templates table hands out
MaxTemplateId == 2

(* ----------------------------- constants ------------------------------- *)
Null == "null"

NoTime == <<>>

ChDot == 46

ChZero == 48

ChZ == 90

MicroDigits == {0, 5}

\* profiles 1 and 3 exist; 2 is the id of a profile that was deleted
ProfileIds == {1, 2, 3}

KnownProfiles == {1, 3}

\* the profiles table at the start: add_profile keeps the addresses distinct
InitialProfiles ==
  (1 :> [name |-> "Ada", email |-> "ada@example.org"]) @@
  (3 :> [name |-> "Alan", email |-> "alan@example.org"])

\* what the Profiles page can add and the My Profile page can save
NewProfiles == {[name |-> "Bob", email |-> "bob@example.org"]}

UserProfiles == {[name |-> "Grace"], [name |-> "Grace H."]}

Instants == [s : 0..MaxSec, u : MicroDigits]

ReminderDates == {"2025-01-02"}

CampaignStatuses == {"scheduled", "sent", "failed", "partial"}

DeliveryStatuses == {"pending", "sent", "failed"}

\* reason codes the sender reports; none at all falls back to "send_error"
Reasons == {Null, "mailbox_unavailable"}

(* ------------------------------- time ---------------------------------- *)
\* datetime.isoformat() of an aware UTC datetime, "+00:00" replaced by "Z".
IsoFormat(t) ==
  <<ChZero + t.s>> \o
  (IF t.u = 0 THEN <<ChZ>> ELSE <<ChDot, ChZero + t.u, ChZ>>)

NowUtcIso(t) == IsoFormat(t)

\* to_utc_iso of a datetime that already carries its zone.
ToUtcIso(t) == IsoFormat(t)

\* datetime.fromisoformat of the stored string, back to the instant.
ParseIsoToUtc(str) ==
  [s |-> str[1] - ChZero,
   u |-> IF Len(str) = 2 THEN 0 ELSE str[3] - ChZero]

\* chronological order of two instants
InstantLeq(a, b) == a.s < b.s \/ (a.s = b.s /\ a.u <= b.u)

\* Python's str <= str: code point by code point, a proper prefix is smaller.
RECURSIVE StrLeq(_, _)
StrLeq(a, b) ==
  IF a = <<>> THEN TRUE
  ELSE IF b = <<>> THEN FALSE
  ELSE IF Head(a) < Head(b) THEN TRUE
  ELSE IF Head(a) > Head(b) THEN FALSE
  ELSE StrLeq(Tail(a), Tail(b))

(* time zones: a timestamp with its hour, an hour being a whole number on   *)
(* a line that has one change to summer time and one back                  *)
\* _DEF_TZ
DefTz == "Europe/Rome"

\* names ZoneInfo() accepts; any other name, the empty one too, raises
ValidZones == {"Europe/Rome", "Asia/Tokyo", "UTC"}

\* names a caller can pass or the environment can hold
ZoneNames == ValidZones \cup {"Mars/Base", ""}

\* the UTC hours at which the zone's offset changes
ZoneTransitions(tz) == IF tz = "Europe/Rome" THEN <<2, 6>> ELSE <<>>

\* the zone's offsets in hours: before the first change, between, after
ZoneOffsets(tz) ==
  IF tz = "Europe/Rome" THEN <<1, 2, 1>>
  ELSE IF tz = "Asia/Tokyo" THEN <<9>>
  ELSE <<0>>

\* astimezone(tz) of an aware datetime: the offset in force at a UTC hour
UtcOffset(tz, h) ==
  ZoneOffsets(tz)[1 + Cardinality({i \in DOMAIN ZoneTransitions(tz) :
                                      ZoneTransitions(tz)[i] <= h})]

\* slip: the wall-clock hour is looked up as if it were a UTC hour
WallOffsetAsUtc(tz, w) == UtcOffset(tz, w)

\* utcoffset() of a naive datetime given the zone by replace(tzinfo=...),
\* fold = 0: a change counts from the later of its two wall-clock readings,
\* so a skipped hour gets the offset before the change and a repeated hour
\* its first occurrence
WallOffset(tz, w) ==
  LET tr  == ZoneTransitions(tz)
      off == ZoneOffsets(tz)
      later(i) == IF off[i] > off[i + 1] THEN off[i] ELSE off[i + 1]
  IN  off[1 + Cardinality({i \in DOMAIN tr : tr[i] + later(i) <= w})]

\* isoformat() with the hour in front of the seconds
IsoFormatHour(dt) == <<ChZero + dt.h>> \o IsoFormat([s |-> dt.s, u |-> dt.u])

\* to_utc_iso of a naive datetime: dt.replace(tzinfo=get_app_tz()), then
\* astimezone(UTC).isoformat()
ToUtcIsoNaive(dt, tz) == IsoFormatHour([dt EXCEPT !.h = @ - WallOffset(tz, dt.h)])

\* parse_iso_to_local: fromisoformat, then astimezone(get_app_tz()); the
\* wall-clock reading of the result
ParseIsoToLocal(str, tz) ==
  LET h == str[1] - ChZero
      t == ParseIsoToUtc(Tail(str))
  IN  [h |-> h + UtcOffset(tz, h), s |-> t.s, u |-> t.u]

\* get_app_tz: tzname = _RUNTIME_TZ or os.getenv("APP_TIMEZONE", _DEF_TZ);
\* ZoneInfo(tzname), UTC when that raises
GetAppTz(runtime, env) ==
  LET tzname == IF runtime # Null THEN runtime
                ELSE IF env # Null THEN env ELSE DefTz
  IN  IF tzname \in ValidZones THEN tzname ELSE "UTC"

(* search: a text is the sequence of its characters                        *)
Chars == {"a", "A", "b", "."}

Texts(n) == UNION {[1..k -> Chars] : k \in 0..n}

\* re.IGNORECASE on the letters of the model
Lower(ch) == IF ch = "A" THEN "a" ELSE ch

\* re.search(term, text, flags=re.IGNORECASE): the term is a pattern, "."
\* stands for any character
RegexSearch(term, text) ==
  \E i \in 1..(Len(text) - Len(term) + 1) :
    \A k \in 1..Len(term) :
      term[k] = "." \/ Lower(term[k]) = Lower(text[i + k - 1])

\* search_emails: (status == "sent") & (subject.search | body.search)
SearchEmails(em, term) ==
  {c \in DOMAIN em :
     /\ em[c].status = "sent"
     /\ RegexSearch(term, em[c].subject) \/ RegexSearch(term, em[c].body)}

(* ------------------------------ tables --------------------------------- *)
Remove(table, ids) == [i \in (DOMAIN table) \ ids |-> table[i]]

DeliveriesOf(dl, cid) == {d \in DOMAIN dl : dl[d].campaign_id = cid}

WithStatus(dl, cid, st) == {d \in DeliveriesOf(dl, cid) : dl[d].status = st}

\* prof = self.profiles_table.get(doc_id=rid) or {}; snapshot of its fields
Snapshot(pf, rid) ==
  IF rid \in DOMAIN pf
  THEN [name |-> pf[rid].name, email |-> pf[rid].email]
  ELSE [name |-> Null, email |-> Null]

CampaignRow(recipients, schedIso, reminder, sender) ==
  [recipients    |-> recipients,
   sender_profile |-> sender,
   status        |-> "scheduled",
   schedule_time |-> schedIso,
   sent_time     |-> NoTime,
   reminder_date |-> reminder,
   counts        |-> [total |-> Len(recipients), pending |-> Len(recipients),
                      sent |-> 0, failed |-> 0]]

DeliveryRow(pf, cid, rid, schedIso) ==
  [campaign_id        |-> cid,
   recipient_id       |-> rid,
   recipient_email    |-> Snapshot(pf, rid).email,
   recipient_snapshot |-> Snapshot(pf, rid),
   status             |-> "pending",
   error              |-> Null,
   schedule_time      |-> schedIso,
   sent_time          |-> NoTime,
   last_attempt       |-> NoTime,
   rendered_body      |-> Null]

\* slip: a recipient id without a profile is skipped
NewDeliveriesKnownOnly(pf, cid, recipients, firstId, schedIso) ==
  LET known == SelectSeq(recipients, LAMBDA r : r \in DOMAIN pf)
  IN  [d \in firstId..(firstId + Len(known) - 1) |->
         DeliveryRow(pf, cid, known[d - firstId + 1], schedIso)]

\* the delivery rows schedule_email inserts, ids handed out in list order
NewDeliveries(pf, cid, recipients, firstId, schedIso) ==
  [d \in firstId..(firstId + Len(recipients) - 1) |->
     DeliveryRow(pf, cid, recipients[d - firstId + 1], schedIso)]

\* slip: the error is stored as given, without the "send_error" fallback
DeliveryPatchRawError(row, status, error, rendered, nowIso) ==
  IF status = "sent"
  THEN [row EXCEPT !.status = status, !.last_attempt = nowIso,
                   !.sent_time = nowIso, !.error = Null,
                   !.rendered_body = IF rendered # Null THEN rendered ELSE @]
  ELSE [row EXCEPT !.status = status, !.last_attempt = nowIso,
                   !.error = error]

\* slip: a failed attempt blanks the recipient's address and puts the
\* delivery back to no schedule time
DeliveryPatchDropsSnapshot(row, status, error, rendered, nowIso) ==
  IF status = "sent"
  THEN [row EXCEPT !.status = status, !.last_attempt = nowIso,
                   !.sent_time = nowIso, !.error = Null,
                   !.rendered_body = IF rendered # Null THEN rendered ELSE @]
  ELSE [row EXCEPT !.status = status, !.last_attempt = nowIso,
                   !.error = IF error \in {Null, ""} THEN "send_error" ELSE error,
                   !.schedule_time = NoTime,
                   !.recipient_email = Null,
                   !.recipient_snapshot = [name |-> Null, email |-> Null]]

\* the patch update_delivery_status applies to the delivery row
DeliveryPatch(row, status, error, rendered, nowIso) ==
  IF status = "sent"
  THEN [row EXCEPT !.status = status, !.last_attempt = nowIso,
                   !.sent_time = nowIso, !.error = Null,
                   !.rendered_body = IF rendered # Null THEN rendered ELSE @]
  ELSE [row EXCEPT !.status = status, !.last_attempt = nowIso,
                   !.error = IF error \in {Null, ""} THEN "send_error" ELSE error]

\* slip: any successful send marks the whole campaign sent
AggregateStatusAnySent(total, sent, failed) ==
  IF sent > 0 THEN "sent"
  ELSE IF failed = total THEN "failed"
  ELSE "partial"

\* slip: a mixed outcome puts the campaign back to scheduled
AggregateStatusMixedScheduled(total, sent, failed) ==
  IF sent = total THEN "sent"
  ELSE IF failed = total THEN "failed"
  ELSE "scheduled"

\* if sent == total / elif failed == total / else of the recomputation
AggregateStatus(total, sent, failed) ==
  IF sent = total THEN "sent"
  ELSE IF failed = total THEN "failed"
  ELSE "partial"

\* slip: total is kept as scheduled instead of being counted again
RecomputeKeepTotal(em, dl, cid, nowIso) ==
  LET total   == em[cid].counts.total
      pending == Cardinality(WithStatus(dl, cid, "pending"))
      sent    == Cardinality(WithStatus(dl, cid, "sent"))
      failed  == Cardinality(WithStatus(dl, cid, "failed"))
      counts  == [total |-> total, pending |-> pending,
                  sent |-> sent, failed |-> failed]
  IN  IF pending = 0 /\ Cardinality(DeliveriesOf(dl, cid)) # 0
      THEN [em EXCEPT ![cid].counts = counts,
                      ![cid].status = AggregateStatus(sent + failed, sent, failed),
                      ![cid].sent_time = nowIso]
      ELSE [em EXCEPT ![cid].counts = counts]

\* slip: whatever was not sent is counted as failed
RecomputeFailedAsRest(em, dl, cid, nowIso) ==
  LET total   == Cardinality(DeliveriesOf(dl, cid))
      pending == Cardinality(WithStatus(dl, cid, "pending"))
      sent    == Cardinality(WithStatus(dl, cid, "sent"))
      failed  == total - sent
      counts  == [total |-> total, pending |-> pending,
                  sent |-> sent, failed |-> failed]
  IN  IF pending = 0 /\ total # 0
      THEN [em EXCEPT ![cid].counts = counts,
                      ![cid].status = AggregateStatus(total, sent, failed),
                      ![cid].sent_time = nowIso]
      ELSE [em EXCEPT ![cid].counts = counts]

\* slip: the status is set on every report, pending deliveries or not
RecomputeStatusAlways(em, dl, cid, nowIso) ==
  LET total   == Cardinality(DeliveriesOf(dl, cid))
      pending == Cardinality(WithStatus(dl, cid, "pending"))
      sent    == Cardinality(WithStatus(dl, cid, "sent"))
      failed  == Cardinality(WithStatus(dl, cid, "failed"))
      counts  == [total |-> total, pending |-> pending,
                  sent |-> sent, failed |-> failed]
  IN  IF total # 0
      THEN [em EXCEPT ![cid].counts = counts,
                      ![cid].status = AggregateStatus(total, sent, failed),
                      ![cid].sent_time = nowIso]
      ELSE [em EXCEPT ![cid].counts = counts]

\* slip: the status is derived from the counts the row held before
RecomputeStatusFromStoredCounts(em, dl, cid, nowIso) ==
  LET total   == Cardinality(DeliveriesOf(dl, cid))
      pending == Cardinality(WithStatus(dl, cid, "pending"))
      sent    == Cardinality(WithStatus(dl, cid, "sent"))
      failed  == Cardinality(WithStatus(dl, cid, "failed"))
      counts  == [total |-> total, pending |-> pending,
                  sent |-> sent, failed |-> failed]
      old     == em[cid].counts
  IN  IF pending = 0 /\ total # 0
      THEN [em EXCEPT ![cid].counts = counts,
                      ![cid].status = AggregateStatus(old.total, old.sent, old.failed),
                      ![cid].sent_time = nowIso]
      ELSE [em EXCEPT ![cid].counts = counts]

\* slip: a campaign that is finalised loses its reminder
RecomputeDropsReminder(em, dl, cid, nowIso) ==
  LET total   == Cardinality(DeliveriesOf(dl, cid))
      pending == Cardinality(WithStatus(dl, cid, "pending"))
      sent    == Cardinality(WithStatus(dl, cid, "sent"))
      failed  == Cardinality(WithStatus(dl, cid, "failed"))
      counts  == [total |-> total, pending |-> pending,
                  sent |-> sent, failed |-> failed]
  IN  IF pending = 0 /\ total # 0
      THEN [em EXCEPT ![cid].counts = counts,
                      ![cid].status = AggregateStatus(total, sent, failed),
                      ![cid].sent_time = nowIso,
                      ![cid].reminder_date = Null]
      ELSE [em EXCEPT ![cid].counts = counts]

\* _recompute_campaign_aggregates: counts from a rescan, status and sent_time
\* only when nothing is pending and at least one delivery exists
RecomputeCampaignAggregates(em, dl, cid, nowIso) ==
  LET total   == Cardinality(DeliveriesOf(dl, cid))
      pending == Cardinality(WithStatus(dl, cid, "pending"))
      sent    == Cardinality(WithStatus(dl, cid, "sent"))
      failed  == Cardinality(WithStatus(dl, cid, "failed"))
      counts  == [total |-> total, pending |-> pending,
                  sent |-> sent, failed |-> failed]
  IN  IF pending = 0 /\ total # 0
      THEN [em EXCEPT ![cid].counts = counts,
                      ![cid].status = AggregateStatus(total, sent, failed),
                      ![cid].sent_time = nowIso]
      ELSE [em EXCEPT ![cid].counts = counts]

\* slip: cancelling removes the campaign's deliveries whatever their status
PendingIdsAnyStatus(dl, cid) == DeliveriesOf(dl, cid)

\* pending_ids of delete_scheduled_email: the campaign's pending deliveries
PendingIds(dl, cid) == WithStatus(dl, cid, "pending")

\* slip: every pending row is selected, whatever its schedule_time
DueDeliveriesAnyTime(dl, nowIso) ==
  {d \in DOMAIN dl : dl[d].status = "pending"}

\* the rows get_due_deliveries selects
DueDeliveries(dl, nowIso) ==
  {d \in DOMAIN dl :
     dl[d].status = "pending" /\ StrLeq(dl[d].schedule_time, nowIso)}

(* --------------------------- call records ------------------------------ *)
\* the last repository call since the clock moved: the id, status and error
\* it was given and the ids it returned
Call(op, id, status, error, ret) ==
  [op |-> op, id |-> id, status |-> status, error |-> error, ret |-> ret]

NoCall == Call("none", 0, Null, Null, {})

\* schedule_email in progress in a UI session: the campaign it inserted and
\* the recipients whose delivery row is still to be inserted
IdleSched == [pc |-> "idle", cid |-> 0, todo |-> <<>>, schedIso |-> NoTime]

\* a page run: the campaign row it took from emails_table.all() and the
\* number of rows get_deliveries_for_campaign then gave it
\* (missing: the delivery rows schedule_email had still to insert when the
\* campaign row was read)
IdleReader == [pc |-> "idle", cid |-> 0, total |-> 0, seen |-> 0,
               missing |-> 0, cancelled |-> FALSE]

\* the sender worker at the top of its loop; sent, resent, failures and
\* skipped log what it did to each recipient of each campaign: handed to the
\* transport, handed to it again in a later cycle, refused by the transport
\* with a reason, passed over for want of a profile.  handle tells how far
\* the DatabaseHandler that main() builds before the loop has been used:
\* "new" until the first query, "used" after it, "reused" once a later cycle
\* has queried through it again without reload(); pmap is the
\* profile_id_map of the cycle and addressed the address each mail went to
IdleWorker == [pc |-> "poll", due |-> <<>>, i |-> 0, todo |-> <<>>,
               sent |-> {}, resent |-> {}, failures |-> {}, skipped |-> {},
               caught |-> FALSE, handle |-> "new", pmap |-> <<>>,
               addressed |-> {}]

\* no timezone saved in the settings table, none in the environment, no
\* override in the process
NoSettings == [saved |-> Null, env |-> Null, runtime |-> Null, resolved |-> Null]

\* no function under examination
NoProbe == [f |-> "none"]

\* the DatabaseHandler objects open on db.json, one per UI session
Handles == {"session1", "session2"}

\* the doc id each table of a handle will hand out next; 0 before the
\* handle has inserted into the table, when the id is taken from the file
NewHandle == [emails |-> 0, deliveries |-> 0]

NewHandles == [h \in Handles |-> NewHandle]

\* the two processes that share db.json
Procs == {"ui", "worker"}

\* a repository call of a process: where it stands (idle, issued and waiting
\* for the lock, first write done, rows counted), its arguments, the tables
\* as they were when it took the lock and the rows it counted
IdleCall == [pc |-> "idle", op |-> "none", id |-> 0, status |-> Null,
             em |-> <<>>, dl |-> <<>>, scan |-> <<>>, overlap |-> FALSE]

\* slip: the read goes to the table without taking the lock
CanAcquireUnlocked(lk) == TRUE

\* with self._lock: the file lock is taken when no one holds it
CanAcquire(lk) == lk = "free"

\* remembers that the campaign a page is showing was cancelled under it
NoteCancel(rd, c) ==
  [rd EXCEPT !.cancelled = @ \/ (rd.pc = "row" /\ rd.cid = c)]

(* ------------------------------- Init ---------------------------------- *)
Init ==
  /\ profiles = InitialProfiles
  /\ emails = <<>>
  /\ deliveries = <<>>
  /\ nextEmailId = 1
  /\ nextDeliveryId = 1
  /\ now = [s |-> 0, u |-> 0]
  /\ last = NoCall
  /\ lock = "free"
  /\ sched = IdleSched
  /\ reader = IdleReader
  /\ worker = IdleWorker
  /\ calls = [p \in Procs |-> IdleCall]
  /\ user = [name |-> "Grace"]
  /\ settings = NoSettings
  /\ probe = NoProbe
  /\ handles = NewHandles
  /\ templates = <<>>

(* ------------------------------ actions -------------------------------- *)
\* the wall clock moves to the next instant of the model
Tick ==
  /\ \E t \in Instants :
       /\ t # now
       /\ InstantLeq(now, t)
       /\ \A m \in Instants : InstantLeq(now, m) /\ InstantLeq(m, t) => m \in {now, t}
       /\ now' = t
  /\ last' = NoCall
  /\ UNCHANGED <<storeVars, txnVars, auxVars>>

ScheduleEmail(recipients, t, reminder) ==
  /\ CanAcquire(lock)
  /\ nextEmailId <= MaxCampaigns
  /\ nextDeliveryId + Len(recipients) - 1 <= MaxDeliveries
  /\ LET cid == nextEmailId
         schedIso == ToUtcIso(t)
     IN  /\ emails' = emails @@ (cid :> CampaignRow(recipients, schedIso, reminder, user))
         /\ deliveries' = deliveries @@
              NewDeliveries(profiles, cid, recipients, nextDeliveryId, schedIso)
         /\ nextEmailId' = cid + 1
         /\ nextDeliveryId' = nextDeliveryId + Len(recipients)
         /\ last' = Call("schedule_email", 0, Null, Null, {cid})
  /\ UNCHANGED <<profiles, now, txnVars, auxVars>>

GetDueDeliveries ==
  /\ CanAcquire(lock)
  /\ last' = Call("get_due_deliveries", 0, Null, Null,
                  DueDeliveries(deliveries, NowUtcIso(now)))
  /\ UNCHANGED <<storeVars, now, txnVars, auxVars>>

UpdateDeliveryStatus(d, status, error, rendered) ==
  /\ CanAcquire(lock)
  /\ d \in DOMAIN deliveries
  /\ LET nowIso == NowUtcIso(now)
         dl == [deliveries EXCEPT ![d] = DeliveryPatch(@, status, error, rendered, nowIso)]
     IN  /\ deliveries' = dl
         /\ emails' = RecomputeCampaignAggregates(emails, dl, dl[d].campaign_id, nowIso)
         /\ last' = Call("update_delivery_status", d, status, error, {})
  /\ UNCHANGED <<profiles, nextEmailId, nextDeliveryId, now, txnVars, auxVars>>

\* slip: the campaign row is removed although reported deliveries are left
DeleteScheduledEmailDropsRow(c) ==
  /\ CanAcquire(lock)
  /\ c \in DOMAIN emails
  /\ deliveries' = Remove(deliveries, PendingIds(deliveries, c))
  /\ emails' = Remove(emails, {c})
  /\ last' = Call("delete_scheduled_email", c, Null, Null, {})
  /\ reader' = NoteCancel(reader, c)
  /\ UNCHANGED <<profiles, nextEmailId, nextDeliveryId, now, lock, sched, worker, calls, auxVars>>

\* slip: the campaign row is kept when no delivery is left
DeleteScheduledEmailKeepsRow(c) ==
  /\ CanAcquire(lock)
  /\ c \in DOMAIN emails
  /\ LET nowIso == NowUtcIso(now)
         dl == Remove(deliveries, PendingIds(deliveries, c))
     IN  /\ deliveries' = dl
         /\ emails' = RecomputeCampaignAggregates(emails, dl, c, nowIso)
         /\ last' = Call("delete_scheduled_email", c, Null, Null, {})
  /\ reader' = NoteCancel(reader, c)
  /\ UNCHANGED <<profiles, nextEmailId, nextDeliveryId, now, lock, sched, worker, calls, auxVars>>

DeleteScheduledEmail(c) ==
  /\ CanAcquire(lock)
  /\ c \in DOMAIN emails
  /\ LET nowIso == NowUtcIso(now)
         dl == Remove(deliveries, PendingIds(deliveries, c))
         em == RecomputeCampaignAggregates(emails, dl, c, nowIso)
     IN  /\ deliveries' = dl
         /\ emails' = IF DeliveriesOf(dl, c) = {} THEN Remove(em, {c}) ELSE em
         /\ last' = Call("delete_scheduled_email", c, Null, Null, {})
  /\ reader' = NoteCancel(reader, c)
  /\ UNCHANGED <<profiles, nextEmailId, nextDeliveryId, now, lock, sched, worker, calls, auxVars>>

SetEmailReminder(c, date) ==
  /\ CanAcquire(lock)
  /\ c \in DOMAIN emails
  /\ emails' = [emails EXCEPT ![c].reminder_date = date]
  /\ last' = Call("set_email_reminder", c, Null, Null, {})
  /\ UNCHANGED <<profiles, deliveries, nextEmailId, nextDeliveryId, now, txnVars, auxVars>>

ClearEmailReminder(c) ==
  /\ CanAcquire(lock)
  /\ c \in DOMAIN emails
  /\ emails' = [emails EXCEPT ![c].reminder_date = Null]
  /\ last' = Call("clear_email_reminder", c, Null, Null, {})
  /\ UNCHANGED <<profiles, deliveries, nextEmailId, nextDeliveryId, now, txnVars, auxVars>>

\* the outcome the sender reports: Sent with the rendered body, or Failed
\* with a reason code
ReportOutcome(reasons) ==
  \E d \in DOMAIN deliveries :
    \/ UpdateDeliveryStatus(d, "sent", Null, "rendered")
    \/ \E e \in reasons : UpdateDeliveryStatus(d, "failed", e, Null)

\* the recipient lists of the runs: the first n of the ids, n = 0, 1, 2, 3
FirstRecipients == {SubSeq(<<1, 2, 3>>, 1, n) : n \in 0..3}

(* the repository under any sequence of calls, the clock standing still:   *)
(* every campaign is sent "now"                                            *)
Next ==
  \/ \E r \in FirstRecipients : ScheduleEmail(r, now, Null)
  \/ ReportOutcome({"mailbox_unavailable"})
  \/ \E c \in DOMAIN emails : DeleteScheduledEmail(c)
  \/ \E c \in DOMAIN emails, date \in ReminderDates : SetEmailReminder(c, date)
  \/ \E c \in DOMAIN emails : ClearEmailReminder(c)

Spec == Init /\ [][Next]_vars

\* the page's two buttons: "Send Now" gives datetime.now(), "Schedule for
\* Later" a date and a time of day, which have no fraction of a second
ScheduleTimes(t) == {t} \cup {i \in Instants : i.u = 0}

(* one campaign while the clock runs: scheduled from the page, polled and  *)
(* reported                                                                *)
NextClock ==
  \/ Tick
  \/ \E r \in {<<1>>, <<1, 2>>}, t \in ScheduleTimes(now) :
       DOMAIN emails = {} /\ ScheduleEmail(r, t, Null)
  \/ GetDueDeliveries
  \/ ReportOutcome(Reasons)

SpecClock == Init /\ [][NextClock]_vars

(* one campaign after another while the clock runs: scheduled, reported,   *)
(* cancelled                                                               *)
NextClockCancel ==
  \/ Tick
  \/ \E r \in {<<1>>, <<1, 2>>}, t \in ScheduleTimes(now) :
       DOMAIN emails = {} /\ ScheduleEmail(r, t, Null)
  \/ ReportOutcome({"mailbox_unavailable"})
  \/ \E c \in DOMAIN emails : DeleteScheduledEmail(c)

SpecClockCancel == Init /\ [][NextClockCancel]_vars

(* schedule_email step by step under the file lock, next to a page that    *)
(* reads the campaign rows without the lock and the delivery rows with it  *)
\* with self._lock: campaign_id = self.emails_table.insert({...})
TxnInsertCampaign(recipients, t) ==
  /\ CanAcquire(lock)
  /\ sched.pc = "idle"
  /\ nextEmailId <= MaxTxnCampaigns
  /\ nextDeliveryId + Len(recipients) - 1 <= MaxDeliveries
  /\ lock' = "schedule_email"
  /\ emails' = emails @@ (nextEmailId :> CampaignRow(recipients, ToUtcIso(t), Null, user))
  /\ sched' = [pc |-> "inserting", cid |-> nextEmailId, todo |-> recipients,
               schedIso |-> ToUtcIso(t)]
  /\ nextEmailId' = nextEmailId + 1
  /\ UNCHANGED <<profiles, deliveries, nextDeliveryId, now, last, reader, worker, calls, auxVars>>

\* for rid in recipients: self.deliveries_table.insert({...})
TxnInsertDelivery ==
  /\ sched.pc = "inserting"
  /\ sched.todo # <<>>
  /\ deliveries' = deliveries @@
       (nextDeliveryId :> DeliveryRow(profiles, sched.cid, Head(sched.todo), sched.schedIso))
  /\ nextDeliveryId' = nextDeliveryId + 1
  /\ sched' = [sched EXCEPT !.todo = Tail(@)]
  /\ UNCHANGED <<profiles, emails, nextEmailId, now, last, lock, reader, worker, calls, auxVars>>

\* return campaign_id, leaving the with block
TxnReturn ==
  /\ sched.pc = "inserting"
  /\ sched.todo = <<>>
  /\ lock' = "free"
  /\ last' = Call("schedule_email", 0, Null, Null, {sched.cid})
  /\ sched' = IdleSched
  /\ UNCHANGED <<storeVars, now, reader, worker, calls, auxVars>>

\* all_emails = db.emails_table.all() of a page run: no lock is taken
ReadEmailsUnlocked(c) ==
  /\ reader.pc \in {"idle", "done"}
  /\ c \in DOMAIN emails
  /\ reader' = [pc |-> "row", cid |-> c, total |-> emails[c].counts.total,
                seen |-> 0,
                missing |-> IF sched.pc = "inserting" /\ sched.cid = c
                            THEN Len(sched.todo) ELSE 0,
                cancelled |-> FALSE]
  /\ UNCHANGED <<storeVars, now, last, lock, sched, worker, calls, auxVars>>

\* deliveries = db.get_deliveries_for_campaign(email.doc_id): under the lock
ReadDeliveries ==
  /\ reader.pc = "row"
  /\ CanAcquire(lock)
  /\ reader' = [reader EXCEPT !.pc = "done",
                              !.seen = Cardinality(DeliveriesOf(deliveries, reader.cid))]
  /\ UNCHANGED <<storeVars, now, last, lock, sched, worker, calls, auxVars>>

NextTxn ==
  \/ \E r \in FirstRecipients : TxnInsertCampaign(r, now)
  \/ TxnInsertDelivery
  \/ TxnReturn
  \/ \E c \in DOMAIN emails : ReadEmailsUnlocked(c)
  \/ ReadDeliveries
  \/ ReportOutcome({"mailbox_unavailable"})
  \/ \E c \in DOMAIN emails : DeleteScheduledEmail(c)

SpecTxn == Init /\ [][NextTxn]_vars

(* the sender worker (send_worker.py): one poll cycle step by step, next to *)
(* a UI session that schedules and cancels                                 *)
\* the ids of a set in ascending order, the order the table is stored in
RECURSIVE Ascending(_)
Ascending(S) ==
  IF S = {} THEN <<>>
  ELSE LET m == CHOOSE x \in S : \A y \in S : x <= y
       IN  <<m>> \o Ascending(S \ {m})

\* the rows get_due_emails selects: scheduled campaigns whose time has come
DueEmails(em, nowIso) ==
  {c \in DOMAIN em :
     em[c].status = "scheduled" /\ StrLeq(em[c].schedule_time, nowIso)}

\* what send_email can return: (True, None) or (False, code)
TransportResults == {Null, "mailbox_unavailable"}

\* slip: the except clause does not match the exception and the loop ends
RaiseUncaught(w) == [w EXCEPT !.pc = "stopped"]

\* an exception inside the try block: control goes to the except clause
Raise(w) == [w EXCEPT !.pc = "except"]

\* due_emails = db.get_due_emails(): the documents are copies, each with the
\* recipient list it had at the poll
WorkerPoll ==
  /\ worker.pc = "poll"
  /\ CanAcquire(lock)
  /\ LET ids == DueEmails(emails, NowUtcIso(now))
         due == [k \in 1..Cardinality(ids) |->
                   [id |-> Ascending(ids)[k],
                    recipients |-> emails[Ascending(ids)[k]].recipients]]
     IN  /\ worker' = [worker EXCEPT !.pc = IF due = <<>> THEN "sleep" ELSE "profiles",
                                     !.due = due, !.i = 1, !.todo = <<>>,
                                     !.handle = IF @ = "new" THEN "used" ELSE "reused"]
         /\ last' = Call("get_due_emails", 0, Null, Null, ids)
  /\ UNCHANGED <<storeVars, now, lock, sched, reader, calls, auxVars>>

\* the store cannot be read (file unreadable, lock not obtained): the call
\* raises inside the try block
WorkerPollFails ==
  /\ worker.pc = "poll"
  /\ worker' = Raise(worker)
  /\ UNCHANGED <<storeVars, now, last, lock, sched, reader, calls, auxVars>>

\* all_profiles = db.get_all_profiles(); profile_id_map = {p.doc_id: p ...}:
\* the profiles table as it is now, once per cycle
WorkerLoadProfiles ==
  /\ worker.pc = "profiles"
  /\ CanAcquire(lock)
  /\ worker' = [worker EXCEPT !.pc = "job", !.pmap = profiles]
  /\ UNCHANGED <<storeVars, now, last, lock, sched, reader, calls, auxVars>>

\* for email_job in due_emails: ... recipient_ids = email_job.get("recipients")
WorkerNextJob ==
  /\ worker.pc = "job"
  /\ worker' = IF worker.i > Len(worker.due)
               THEN [worker EXCEPT !.pc = "sleep"]
               ELSE [worker EXCEPT !.pc = "recipient",
                                   !.todo = worker.due[worker.i].recipients]
  /\ UNCHANGED <<storeVars, now, last, lock, sched, reader, calls, auxVars>>

\* recipient_profile = profile_id_map.get(recipient_id)
\* if not recipient_profile: logger.warning(...); continue
WorkerSkip ==
  /\ worker.pc = "recipient"
  /\ worker.todo # <<>>
  /\ Head(worker.todo) \notin DOMAIN worker.pmap
  /\ worker' = [worker EXCEPT
       !.todo = Tail(@),
       !.skipped = @ \cup {<<worker.due[worker.i].id, Head(worker.todo)>>}]
  /\ UNCHANGED <<storeVars, now, last, lock, sched, reader, calls, auxVars>>

\* email_sent = send_email(...); if email_sent: success_count += 1
\* the tuple send_email returns is true whatever it holds, and nothing is
\* written to the store
WorkerSend(result) ==
  /\ worker.pc = "recipient"
  /\ worker.todo # <<>>
  /\ Head(worker.todo) \in DOMAIN worker.pmap
  /\ LET key == <<worker.due[worker.i].id, Head(worker.todo)>>
     IN  worker' = [worker EXCEPT
           !.todo = Tail(@),
           !.sent = @ \cup {key},
           !.addressed = @ \cup {<<key[1], key[2], worker.pmap[key[2]].email>>},
           !.resent = IF key \in worker.sent THEN @ \cup {key} ELSE @,
           !.failures = IF result # Null THEN @ \cup {<<key[1], key[2], result>>}
                        ELSE @]
  /\ UNCHANGED <<storeVars, now, last, lock, sched, reader, calls, auxVars>>

\* db.update_email_status(job_id, new_status="sent"): DatabaseHandler has no
\* such method, the attribute lookup raises and the for loop is left
WorkerUpdateStatus ==
  /\ worker.pc = "recipient"
  /\ worker.todo = <<>>
  /\ worker' = Raise(worker)
  /\ UNCHANGED <<storeVars, now, last, lock, sched, reader, calls, auxVars>>

\* except Exception as e: logger.critical(...)
WorkerExcept ==
  /\ worker.pc = "except"
  /\ worker' = [worker EXCEPT !.pc = "sleep", !.caught = TRUE]
  /\ UNCHANGED <<storeVars, now, last, lock, sched, reader, calls, auxVars>>

\* time.sleep(CHECK_INTERVAL_SECONDS), then the top of the loop
WorkerSleep ==
  /\ worker.pc = "sleep"
  /\ worker' = [worker EXCEPT !.pc = "poll", !.due = <<>>, !.i = 0, !.todo = <<>>,
                               !.pmap = <<>>]
  /\ UNCHANGED <<storeVars, now, last, lock, sched, reader, calls, auxVars>>

WorkerStep ==
  \/ WorkerPoll
  \/ WorkerPollFails
  \/ WorkerLoadProfiles
  \/ WorkerNextJob
  \/ WorkerSkip
  \/ \E result \in TransportResults : WorkerSend(result)
  \/ WorkerUpdateStatus
  \/ WorkerExcept
  \/ WorkerSleep

\* the recipient lists of the worker's runs: 2 has no profile any more
WorkerRecipients == {<<1>>, <<2>>, <<1, 2>>}

NextWorker ==
  \/ WorkerStep
  \/ Tick
  \/ \E r \in WorkerRecipients, t \in ScheduleTimes(now) : ScheduleEmail(r, t, Null)
  \/ \E c \in DOMAIN emails : DeleteScheduledEmail(c)

SpecWorker == Init /\ [][NextWorker]_vars

NextWorkerLive ==
  \/ WorkerStep
  \/ Tick
  \/ \E r \in WorkerRecipients, t \in ScheduleTimes(now) :
       nextEmailId <= MaxLiveCampaigns /\ ScheduleEmail(r, t, Null)
  \/ \E c \in DOMAIN emails : DeleteScheduledEmail(c)

\* the worker process is scheduled: whenever it can take a step it does
SpecWorkerLive == Init /\ [][NextWorkerLive]_vars /\ WF_vars(WorkerStep)

(* update_delivery_status and delete_scheduled_email statement by          *)
(* statement, called by two processes at once                              *)
\* what a call with a doc id the table lacks leaves behind: the KeyError
\* TinyDB raises from update(doc_ids=[...]), nothing written
Raised(op, id, exc) ==
  [op |-> op, id |-> id, status |-> Null, error |-> Null, ret |-> {},
   raised |-> exc]

\* the error and the rendered body that go with a reported status
ErrorFor(status) == IF status = "failed" THEN "mailbox_unavailable" ELSE Null

RenderedFor(status) == IF status = "sent" THEN "rendered" ELSE Null

\* the call is made; now_iso = now_utc_iso() and the wait for the lock
RaceIssue(p, op, id, status) ==
  /\ calls[p].pc = "idle"
  /\ calls' = [calls EXCEPT ![p] =
       [IdleCall EXCEPT !.pc = "issued", !.op = op, !.id = id, !.status = status]]
  /\ UNCHANGED <<storeVars, now, last, lock, sched, reader, worker, auxVars>>

\* with self._lock: and the first write, deliveries_table.update(patch, ...)
\* or deliveries_table.remove(doc_ids=pending_ids)
RaceEnter(p) ==
  /\ calls[p].pc = "issued"
  /\ CanAcquire(lock)
  /\ LET c == calls[p]
         held == [c EXCEPT !.em = emails, !.dl = deliveries,
                           !.overlap = \E q \in Procs \ {p} : calls[q].pc = "issued"]
     IN  IF c.op = "update_delivery_status"
         THEN IF c.id \in DOMAIN deliveries
              THEN /\ deliveries' = [deliveries EXCEPT ![c.id] =
                        DeliveryPatch(@, c.status, ErrorFor(c.status),
                                      RenderedFor(c.status), NowUtcIso(now))]
                   /\ lock' = p
                   /\ calls' = [calls EXCEPT ![p] = [held EXCEPT !.pc = "patched"]]
                   /\ UNCHANGED last
              ELSE /\ last' = Raised(c.op, c.id, "KeyError")
                   /\ calls' = [calls EXCEPT ![p] =
                        [IdleCall EXCEPT !.overlap = held.overlap]]
                   /\ UNCHANGED <<deliveries, lock, auxVars>>
         ELSE /\ deliveries' = Remove(deliveries, PendingIds(deliveries, c.id))
              /\ lock' = p
              /\ calls' = [calls EXCEPT ![p] = [held EXCEPT !.pc = "removed"]]
              /\ UNCHANGED last
  /\ UNCHANGED <<profiles, emails, nextEmailId, nextDeliveryId, now, sched, reader, worker, auxVars>>

\* deliveries = self.deliveries_table.search(Delivery.campaign_id == ...) of
\* _recompute_campaign_aggregates
RaceScan(p) ==
  /\ calls[p].pc \in {"patched", "removed"}
  /\ calls' = [calls EXCEPT ![p].pc = "scanned", ![p].scan = deliveries]
  /\ UNCHANGED <<storeVars, now, last, lock, sched, reader, worker, auxVars>>

\* self.emails_table.update(patch, doc_ids=[campaign_id]); for a cancel the
\* second search and the removal of the campaign row; the lock is released
RaceWrite(p) ==
  /\ calls[p].pc = "scanned"
  /\ LET c == calls[p]
         cid == IF c.op = "update_delivery_status"
                THEN c.scan[c.id].campaign_id ELSE c.id
     IN  IF cid \in DOMAIN emails
         THEN LET em == RecomputeCampaignAggregates(emails, c.scan, cid, NowUtcIso(now))
              IN  /\ emails' = IF c.op = "delete_scheduled_email"
                                  /\ DeliveriesOf(deliveries, cid) = {}
                               THEN Remove(em, {cid}) ELSE em
                  /\ last' = Call(c.op, c.id, c.status, ErrorFor(c.status), {})
         ELSE /\ last' = Raised(c.op, c.id, "KeyError")
              /\ UNCHANGED emails
  /\ lock' = "free"
  /\ calls' = [calls EXCEPT ![p] = [IdleCall EXCEPT !.overlap = calls[p].overlap]]
  /\ UNCHANGED <<profiles, deliveries, nextEmailId, nextDeliveryId, now, sched,
                 reader, worker, auxVars>>

NextRace ==
  \/ \E r \in FirstRecipients :
       /\ nextEmailId <= MaxTxnCampaigns
       /\ nextDeliveryId + Len(r) - 1 <= MaxRaceDeliveries
       /\ ScheduleEmail(r, now, Null)
  \/ \E p \in Procs, d \in DOMAIN deliveries, st \in {"sent", "failed"} :
       RaceIssue(p, "update_delivery_status", d, st)
  \/ \E p \in Procs, c \in DOMAIN emails :
       RaceIssue(p, "delete_scheduled_email", c, Null)
  \/ \E p \in Procs : RaceEnter(p)
  \/ \E p \in Procs : RaceScan(p)
  \/ \E p \in Procs : RaceWrite(p)

SpecRace == Init /\ [][NextRace]_vars

(* calls with a doc id the table does not hold                             *)
\* the ids a caller may still hold: those handed out so far and the next
StaleIds(nextId) == 1..nextId

\* get_campaign: emails_table.get(doc_id=...) gives the row or None
GetCampaign(c) ==
  /\ CanAcquire(lock)
  /\ last' = Call("get_campaign", c, Null, Null, {c} \cap DOMAIN emails)
  /\ UNCHANGED <<storeVars, now, txnVars, auxVars>>

\* update_delivery_status for a delivery that is gone: the update of
\* doc_ids=[delivery_id] raises before the "if not delivery: return" line
UpdateDeliveryStatusMissing(d, status) ==
  /\ CanAcquire(lock)
  /\ d \notin DOMAIN deliveries
  /\ last' = Raised("update_delivery_status", d, "KeyError")
  /\ UNCHANGED <<storeVars, now, txnVars, auxVars>>

\* delete_scheduled_email for a campaign that is gone: the search finds no
\* delivery, and the update in _recompute_campaign_aggregates raises
DeleteScheduledEmailMissing(c) ==
  /\ CanAcquire(lock)
  /\ c \notin DOMAIN emails
  /\ deliveries' = Remove(deliveries, PendingIds(deliveries, c))
  /\ last' = Raised("delete_scheduled_email", c, "KeyError")
  /\ UNCHANGED <<profiles, emails, nextEmailId, nextDeliveryId, now, txnVars, auxVars>>

\* set_email_reminder / clear_email_reminder for a campaign that is gone
ReminderMissing(op, c) ==
  /\ CanAcquire(lock)
  /\ c \notin DOMAIN emails
  /\ last' = Raised(op, c, "KeyError")
  /\ UNCHANGED <<storeVars, now, txnVars, auxVars>>

NextMissing ==
  \/ \E r \in FirstRecipients : ScheduleEmail(r, now, Null)
  \/ \E c \in DOMAIN emails : DeleteScheduledEmail(c)
  \/ \E c \in DOMAIN emails, date \in ReminderDates : SetEmailReminder(c, date)
  \/ \E c \in StaleIds(nextEmailId) : GetCampaign(c)
  \/ \E d \in StaleIds(nextDeliveryId), st \in {"sent", "failed"} :
       UpdateDeliveryStatusMissing(d, st)
  \/ \E c \in StaleIds(nextEmailId) : DeleteScheduledEmailMissing(c)
  \/ \E c \in StaleIds(nextEmailId),
        op \in {"set_email_reminder", "clear_email_reminder"} : ReminderMissing(op, c)

SpecMissing == Init /\ [][NextMissing]_vars

(* a process that stops in the middle of what it does                      *)
\* the UI process dies inside schedule_email: the rows inserted so far are
\* in the file, the operating system drops the file lock
UiCrash ==
  /\ sched.pc = "inserting"
  /\ lock' = "free"
  /\ sched' = IdleSched
  /\ UNCHANGED <<storeVars, now, last, reader, worker, calls, auxVars>>

\* the worker process dies and is started again: main() from the top, with
\* a DatabaseHandler of its own
WorkerCrash ==
  /\ worker' = [worker EXCEPT !.pc = "poll", !.due = <<>>, !.i = 0, !.todo = <<>>,
                               !.handle = "new", !.pmap = <<>>]
  /\ worker' # worker
  /\ UNCHANGED <<storeVars, now, last, lock, sched, reader, calls, auxVars>>

NextCrash ==
  \/ \E r \in FirstRecipients : TxnInsertCampaign(r, now)
  \/ TxnInsertDelivery
  \/ TxnReturn
  \/ UiCrash
  \/ WorkerStep
  \/ WorkerCrash

SpecCrash == Init /\ [][NextCrash]_vars

(* profiles added, deleted and the user's own profile saved while a        *)
(* campaign waits for the worker                                           *)
\* slip: deleting a profile blanks the snapshots taken from it
DeleteProfileCascades(p) ==
  /\ CanAcquire(lock)
  /\ p \in DOMAIN profiles
  /\ profiles' = Remove(profiles, {p})
  /\ deliveries' = [d \in DOMAIN deliveries |->
       IF deliveries[d].recipient_id = p
       THEN [deliveries[d] EXCEPT !.recipient_email = Null,
                                  !.recipient_snapshot = Snapshot(<<>>, p)]
       ELSE deliveries[d]]
  /\ last' = Call("delete_profile", p, Null, Null, {})
  /\ UNCHANGED <<emails, nextEmailId, nextDeliveryId, now, txnVars, auxVars>>

\* delete_profile: self.profiles_table.remove(doc_ids=[doc_id])
DeleteProfile(p) ==
  /\ CanAcquire(lock)
  /\ p \in DOMAIN profiles
  /\ profiles' = Remove(profiles, {p})
  /\ last' = Call("delete_profile", p, Null, Null, {})
  /\ UNCHANGED <<emails, deliveries, nextEmailId, nextDeliveryId, now, txnVars, auxVars>>

\* the doc ids an insert into the profiles table can get: the handle's
\* counter, which starts one above the largest id the table held when the
\* handle first used it
FreeProfileIds(pf) ==
  {i \in 1..MaxProfileId : \A p \in DOMAIN pf : i > p}

\* slip: the row is inserted without looking for its address
AddProfileUnchecked(row) ==
  /\ CanAcquire(lock)
  /\ \E i \in FreeProfileIds(profiles) :
       /\ profiles' = profiles @@ (i :> row)
       /\ last' = Call("add_profile", i, "True", Null, {i})
  /\ UNCHANGED <<emails, deliveries, nextEmailId, nextDeliveryId, now, txnVars, auxVars>>

\* add_profile: inserted unless a profile with that address exists
AddProfile(row) ==
  /\ CanAcquire(lock)
  /\ IF \E p \in DOMAIN profiles : profiles[p].email = row.email
     THEN /\ last' = Call("add_profile", 0, "False", Null, {})
          /\ UNCHANGED profiles
     ELSE \E i \in FreeProfileIds(profiles) :
            /\ profiles' = profiles @@ (i :> row)
            /\ last' = Call("add_profile", i, "True", Null, {i})
  /\ UNCHANGED <<emails, deliveries, nextEmailId, nextDeliveryId, now, txnVars, auxVars>>

\* update_user_profile: truncate() and insert(data)
UpdateUserProfile(data) ==
  /\ CanAcquire(lock)
  /\ user' = data
  /\ last' = Call("update_user_profile", 0, Null, Null, {})
  /\ UNCHANGED <<storeVars, now, txnVars, settings, probe, handles, templates>>

\* the pages: Compose, Profiles, My Profile
NextProfiles ==
  \/ \E r \in WorkerRecipients \cup {<<3>>} :
       nextEmailId <= MaxProfileCampaigns /\ ScheduleEmail(r, now, Null)
  \/ \E p \in DOMAIN profiles : DeleteProfile(p)
  \/ \E row \in NewProfiles : AddProfile(row)
  \/ \E data \in UserProfiles : UpdateUserProfile(data)

SpecProfiles == Init /\ [][NextProfiles]_vars

\* the worker next to the Compose and Profiles pages
NextWorkerProfiles ==
  \/ \E r \in {<<1>>, <<1, 3>>} :
       nextEmailId <= MaxProfileCampaigns /\ ScheduleEmail(r, now, Null)
  \/ \E p \in DOMAIN profiles : DeleteProfile(p)
  \/ \E row \in NewProfiles : AddProfile(row)
  \/ WorkerStep

SpecWorkerProfiles == Init /\ [][NextWorkerProfiles]_vars

(* functions looked at on their own: the arguments are drawn at the start, *)
(* the call puts its result next to them                                   *)
\* a <= b on the strings of two timestamps, as the due query does it
CompareInputs ==
  [f : {"compare"}, a : Instants, b : Instants, done : {FALSE}, le : {FALSE}]

\* a sent, partial, failed or scheduled campaign and a search term
SearchBodies == {<<>>, <<"b", ".">>}

SearchInputs ==
  [f : {"search_emails"}, term : Texts(MaxTermLen), status : CampaignStatuses,
   subject : Texts(MaxTermLen), body : SearchBodies, done : {FALSE}, out : {{}}]

\* a naive schedule time as the Compose page passes it, and the zone
\* get_app_tz() gives
RoundTripInputs ==
  [f : {"round_trip"}, tz : ValidZones,
   wall : [h : 0..MaxHour, s : 0..MaxSec, u : MicroDigits],
   stage : {"entered"}, iso : {NoTime}, back : {[h |-> 0, s |-> 0, u |-> 0]}]

InitFun ==
  /\ profiles = InitialProfiles
  /\ emails = <<>>
  /\ deliveries = <<>>
  /\ nextEmailId = 1
  /\ nextDeliveryId = 1
  /\ now = [s |-> 0, u |-> 0]
  /\ last = NoCall
  /\ lock = "free"
  /\ sched = IdleSched
  /\ reader = IdleReader
  /\ worker = IdleWorker
  /\ calls = [p \in Procs |-> IdleCall]
  /\ user = [name |-> "Grace"]
  /\ settings = NoSettings
  /\ probe \in CompareInputs \cup SearchInputs \cup RoundTripInputs
  /\ handles = NewHandles
  /\ templates = <<>>

\* Delivery.schedule_time <= now_iso
CompareIso ==
  /\ probe.f = "compare"
  /\ ~probe.done
  /\ probe' = [probe EXCEPT !.done = TRUE,
                            !.le = StrLeq(ToUtcIso(probe.a), NowUtcIso(probe.b))]
  /\ UNCHANGED <<storeVars, now, last, txnVars, user, settings, handles, templates>>

\* db.search_emails(search_query) on a table holding the one campaign
CallSearchEmails ==
  /\ probe.f = "search_emails"
  /\ ~probe.done
  /\ probe' = [probe EXCEPT
       !.done = TRUE,
       !.out = SearchEmails(1 :> [status |-> probe.status, subject |-> probe.subject,
                                   body |-> probe.body], probe.term)]
  /\ UNCHANGED <<storeVars, now, last, txnVars, user, settings, handles, templates>>

\* sched_utc = to_utc_iso(schedule_time)
CallToUtcIso ==
  /\ probe.f = "round_trip"
  /\ probe.stage = "entered"
  /\ probe' = [probe EXCEPT !.stage = "stored",
                            !.iso = ToUtcIsoNaive(probe.wall, probe.tz)]
  /\ UNCHANGED <<storeVars, now, last, txnVars, user, settings, handles, templates>>

\* parse_iso_to_local(e.get("schedule_time")) of a page
CallParseIsoToLocal ==
  /\ probe.f = "round_trip"
  /\ probe.stage = "stored"
  /\ probe' = [probe EXCEPT !.stage = "read",
                            !.back = ParseIsoToLocal(probe.iso, probe.tz)]
  /\ UNCHANGED <<storeVars, now, last, txnVars, user, settings, handles, templates>>

NextFun ==
  \/ CompareIso
  \/ CallSearchEmails
  \/ CallToUtcIso
  \/ CallParseIsoToLocal

SpecFun == InitFun /\ [][NextFun]_vars

(* the timezone setting: the settings table, the environment and the       *)
(* override of the process                                                 *)
InitTz ==
  /\ profiles = InitialProfiles
  /\ emails = <<>>
  /\ deliveries = <<>>
  /\ nextEmailId = 1
  /\ nextDeliveryId = 1
  /\ now = [s |-> 0, u |-> 0]
  /\ last = NoCall
  /\ lock = "free"
  /\ sched = IdleSched
  /\ reader = IdleReader
  /\ worker = IdleWorker
  /\ calls = [p \in Procs |-> IdleCall]
  /\ user = [name |-> "Grace"]
  /\ probe = NoProbe
  /\ handles = NewHandles
  /\ templates = <<>>
  /\ \E env \in ZoneNames \cup {Null} : settings = [NoSettings EXCEPT !.env = env]

\* set_runtime_tz: _RUNTIME_TZ = tzname if tzname else None
SetRuntimeTz(st, tzname) ==
  [st EXCEPT !.runtime = IF tzname \in {Null, ""} THEN Null ELSE tzname,
             !.resolved = Null]

\* a caller sets or clears the override
CallSetRuntimeTz(tzname) ==
  /\ settings' = SetRuntimeTz(settings, tzname)
  /\ settings' # settings
  /\ UNCHANGED <<storeVars, now, last, txnVars, user, probe, handles, templates>>

\* the top of Home and of the Schedule, Reminders and My Profile pages:
\* tz_saved = db.get_timezone(); if tz_saved: set_runtime_tz(tz_saved); then
\* render_settings_sidebar: saved_tz = db.get_timezone() or
\* os.getenv("APP_TIMEZONE") or "Europe/Rome"; set_runtime_tz(saved_tz)
PageRun ==
  /\ LET saved_tz == IF settings.saved \notin {Null, ""} THEN settings.saved
                     ELSE IF settings.env \notin {Null, ""} THEN settings.env
                     ELSE "Europe/Rome"
     IN  settings' = SetRuntimeTz(settings, saved_tz)
  /\ settings' # settings
  /\ UNCHANGED <<storeVars, now, last, txnVars, user, probe, handles, templates>>

\* "Save timezone": ZoneInfo(tzname) validates, db.set_timezone(tzname),
\* set_runtime_tz(tzname); an invalid name changes nothing
SaveTimezone(tzname) ==
  /\ tzname \in ValidZones
  /\ settings' = SetRuntimeTz([settings EXCEPT !.saved = tzname], tzname)
  /\ settings' # settings
  /\ UNCHANGED <<storeVars, now, last, txnVars, user, probe, handles, templates>>

\* the process ends and a new one starts on the same db.json and
\* environment: _RUNTIME_TZ = None
ProcessStart ==
  /\ settings' = [settings EXCEPT !.runtime = Null, !.resolved = Null]
  /\ settings' # settings
  /\ UNCHANGED <<storeVars, now, last, txnVars, user, probe, handles, templates>>

\* get_app_tz() called: the zone it returns
CallGetAppTz ==
  /\ settings.resolved = Null
  /\ settings' = [settings EXCEPT !.resolved = GetAppTz(settings.runtime, settings.env)]
  /\ UNCHANGED <<storeVars, now, last, txnVars, user, probe, handles, templates>>

NextTz ==
  \/ \E tzname \in ZoneNames \cup {Null} : CallSetRuntimeTz(tzname)
  \/ PageRun
  \/ \E tzname \in ZoneNames : SaveTimezone(tzname)
  \/ ProcessStart
  \/ CallGetAppTz

SpecTz == InitTz /\ [][NextTz]_vars

(* a store whose campaign row does not agree with its delivery rows: the   *)
(* file was edited by hand, or a call was interrupted before it recomputed *)
DirtyCounts ==
  [total : 0..MaxDirty, pending : 0..MaxDirty, sent : 0..MaxDirty, failed : 0..MaxDirty]

\* campaign 1 with the counts and status found in the file
DirtyCampaign(n, counts, status) ==
  [CampaignRow(SubSeq(<<1, 2, 3, 4>>, 1, n), ToUtcIso([s |-> 0, u |-> 0]), Null, user)
     EXCEPT !.counts = counts, !.status = status]

\* its delivery rows, row d with status sts[d]
DirtyDeliveries(sts) ==
  [d \in DOMAIN sts |->
     [DeliveryRow(<<>>, 1, d, ToUtcIso([s |-> 0, u |-> 0])) EXCEPT !.status = sts[d]]]

InitDirty ==
  /\ profiles = InitialProfiles
  /\ user = [name |-> "Grace"]
  /\ \E n \in 0..MaxDirty, counts \in DirtyCounts, status \in CampaignStatuses :
       \E sts \in [1..n -> DeliveryStatuses] :
         /\ emails = (1 :> DirtyCampaign(n, counts, status))
         /\ deliveries = DirtyDeliveries(sts)
         /\ nextDeliveryId = n + 1
         /\ probe = [f |-> "dirty", total |-> counts.total, status |-> status,
                      rows |-> n]
  /\ nextEmailId = 2
  /\ now = [s |-> 0, u |-> 0]
  /\ last = NoCall
  /\ lock = "free"
  /\ sched = IdleSched
  /\ reader = IdleReader
  /\ worker = IdleWorker
  /\ calls = [p \in Procs |-> IdleCall]
  /\ settings = NoSettings
  /\ handles = NewHandles
  /\ templates = <<>>

\* self._recompute_campaign_aggregates(campaign_id) on its own, as
\* delete_scheduled_email runs it on a campaign without pending deliveries
RecomputeOnly(c) ==
  /\ CanAcquire(lock)
  /\ c \in DOMAIN emails
  /\ emails' = RecomputeCampaignAggregates(emails, deliveries, c, NowUtcIso(now))
  /\ last' = Call("_recompute_campaign_aggregates", c, Null, Null, {})
  /\ UNCHANGED <<profiles, deliveries, nextEmailId, nextDeliveryId, now, txnVars, auxVars>>

NextDirty ==
  \/ \E c \in DOMAIN emails : RecomputeOnly(c)
  \/ ReportOutcome(Reasons)
  \/ \E c \in DOMAIN emails : DeleteScheduledEmail(c)

SpecDirty == InitDirty /\ [][NextDirty]_vars

(* schedule_email through the store handles of several UI sessions: each   *)
(* handle's tables count their doc ids on their own                        *)
\* how many rows a session schedules at most before the run ends
MaxIssued == 3

\* Table._get_next_id: the table's own counter once it has inserted, else
\* 1 for an empty table and the highest doc id of the file plus one
NextDocId(counter, ids) ==
  IF counter # 0 THEN counter
  ELSE IF ids = {} THEN 1
  ELSE (CHOOSE x \in ids : \A y \in ids : y <= x) + 1

\* the first of the n inserts from doc id d0 on that meets a doc id the
\* table already has, 0 when none does
FirstClash(ids, d0, n) ==
  LET clash == {k \in 1..n : d0 + k - 1 \in ids}
  IN  IF clash = {} THEN 0 ELSE CHOOSE k \in clash : \A j \in clash : k <= j

\* what the run has seen: the doc ids schedule_email gave to campaigns and
\* to deliveries, and those it gave a second time
NoIssued ==
  [f |-> "issued", campaigns |-> {}, deliveries |-> {},
   campaignsAgain |-> {}, deliveriesAgain |-> {}]

InitHandles ==
  /\ profiles = InitialProfiles
  /\ emails = <<>>
  /\ deliveries = <<>>
  /\ nextEmailId = 1
  /\ nextDeliveryId = 1
  /\ now = [s |-> 0, u |-> 0]
  /\ last = NoCall
  /\ lock = "free"
  /\ sched = IdleSched
  /\ reader = IdleReader
  /\ worker = IdleWorker
  /\ calls = [p \in Procs |-> IdleCall]
  /\ user = [name |-> "Grace"]
  /\ settings = NoSettings
  /\ probe = NoIssued
  /\ handles = NewHandles
  /\ templates = <<>>

\* a browser session opens: Home.py puts a new DatabaseHandler into its
\* session state, whose tables have not counted yet
NewSession(h) ==
  /\ handles[h] # NewHandle
  /\ handles' = [handles EXCEPT ![h] = NewHandle]
  /\ last' = NoCall
  /\ UNCHANGED <<storeVars, now, txnVars, user, settings, probe, templates>>

\* schedule_email on the handle h: the insert of the campaign row raises
\* when the table's counter names a doc id the file already has; so does
\* the insert of a delivery row, the rows inserted before it staying
HandleScheduleEmail(h, recipients, t) ==
  /\ CanAcquire(lock)
  /\ LET cid == NextDocId(handles[h].emails, DOMAIN emails)
         d0 == NextDocId(handles[h].deliveries, DOMAIN deliveries)
         n == Len(recipients)
         clash == FirstClash(DOMAIN deliveries, d0, n)
         done == IF clash = 0 THEN n ELSE clash - 1
         asked == IF clash = 0 THEN n ELSE clash
         schedIso == ToUtcIso(t)
         new == d0..(d0 + done - 1)
     IN  /\ cid <= MaxCampaigns
         /\ d0 + n - 1 <= MaxDeliveries
         /\ Cardinality(probe.deliveries) + n <= MaxIssued
         /\ IF cid \in DOMAIN emails
            THEN /\ handles' = [handles EXCEPT ![h].emails = cid + 1]
                 /\ last' = Raised("schedule_email", cid, "ValueError")
                 /\ UNCHANGED <<emails, deliveries, probe>>
            ELSE /\ emails' = emails @@ (cid :> CampaignRow(recipients, schedIso, Null, user))
                 /\ deliveries' = deliveries @@
                      NewDeliveries(profiles, cid, SubSeq(recipients, 1, done), d0, schedIso)
                 /\ handles' = [handles EXCEPT ![h] =
                                  [emails |-> cid + 1, deliveries |-> d0 + asked]]
                 /\ probe' = [probe EXCEPT
                      !.campaigns = @ \cup {cid},
                      !.deliveries = @ \cup new,
                      !.campaignsAgain = @ \cup ({cid} \cap probe.campaigns),
                      !.deliveriesAgain = @ \cup (new \cap probe.deliveries)]
                 /\ last' = IF clash = 0
                            THEN Call("schedule_email", 0, Null, Null, {cid})
                            ELSE Raised("schedule_email", d0 + clash - 1, "ValueError")
  /\ UNCHANGED <<profiles, nextEmailId, nextDeliveryId, now, txnVars, user, settings, templates>>

NextHandles ==
  \/ \E h \in Handles, r \in {<<1>>, <<1, 3>>} : HandleScheduleEmail(h, r, now)
  \/ \E h \in Handles : NewSession(h)
  \/ GetDueDeliveries
  \/ ReportOutcome({"mailbox_unavailable"})
  \/ \E c \in DOMAIN emails : DeleteScheduledEmail(c)

SpecHandles == InitHandles /\ [][NextHandles]_vars

(* polling while nothing is due: the worker's cycle and                    *)
(* get_due_deliveries next to campaigns scheduled for a later day          *)
\* a "Schedule for Later" time the clock of the run does not reach
Tomorrow == [s |-> MaxSec + 1, u |-> 0]

NextPoll ==
  \/ WorkerStep
  \/ Tick
  \/ GetDueDeliveries
  \/ \E r \in WorkerRecipients, t \in ScheduleTimes(now) \cup {Tomorrow} :
       nextEmailId <= MaxLiveCampaigns /\ ScheduleEmail(r, t, Null)

SpecPoll == Init /\ [][NextPoll]_vars

(* the Profiles and Templates pages: rows added and deleted                *)
\* what the Profiles form can hold: a new address under two names, and the
\* addresses the table starts with
ProfileForms ==
  NewProfiles \cup {[name |-> "Bobby", email |-> "bob@example.org"]}
    \cup {InitialProfiles[p] : p \in DOMAIN InitialProfiles}

\* what the Templates form can hold: one name with two subjects, and another
TemplateForms ==
  {[name |-> "Welcome", subject |-> "Hello"],
   [name |-> "Welcome", subject |-> "Hello again"],
   [name |-> "Thanks", subject |-> "Thank you"]}

\* the doc ids an insert into the templates table can get
FreeTemplateIds(tp) ==
  {i \in 1..MaxTemplateId : \A t \in DOMAIN tp : i > t}

\* add_template: inserted unless a template with that name exists
AddTemplate(row) ==
  /\ CanAcquire(lock)
  /\ IF \E t \in DOMAIN templates : templates[t].name = row.name
     THEN /\ last' = Call("add_template", 0, "False", Null, {})
          /\ UNCHANGED templates
     ELSE \E i \in FreeTemplateIds(templates) :
            /\ templates' = templates @@ (i :> row)
            /\ last' = Call("add_template", i, "True", Null, {i})
  /\ UNCHANGED <<storeVars, now, txnVars, user, settings, probe, handles>>

\* delete_template: self.templates_table.remove(doc_ids=[doc_id])
DeleteTemplate(t) ==
  /\ CanAcquire(lock)
  /\ t \in DOMAIN templates
  /\ templates' = Remove(templates, {t})
  /\ last' = Call("delete_template", t, Null, Null, {})
  /\ UNCHANGED <<storeVars, now, txnVars, user, settings, probe, handles>>

NextForms ==
  \/ \E row \in ProfileForms : AddProfile(row)
  \/ \E p \in DOMAIN profiles : DeleteProfile(p)
  \/ \E row \in TemplateForms : AddTemplate(row)
  \/ \E t \in DOMAIN templates : DeleteTemplate(t)

SpecForms == Init /\ [][NextForms]_vars

(* ------------------------------- claims -------------------------------- *)
\* the number of delivery rows of a campaign with a given status
Rows(c, st) == Cardinality(WithStatus(deliveries, c, st))

\* C1: between any two repository calls, every campaign row's counts.total
\* is the number of delivery rows that carry its id.
C1_TotalIsRowCount ==
  \A c \in DOMAIN emails :
    emails[c].counts.total = Cardinality(DeliveriesOf(deliveries, c))

\* a cancelled campaign that kept one of the two deliveries it was scheduled with
C1_Witness ==
  /\ last.op = "delete_scheduled_email"
  /\ last.id \in DOMAIN emails
  /\ Len(emails[last.id].recipients) = 2
  /\ Cardinality(DeliveriesOf(deliveries, last.id)) = 1

\* C2 as stated, for campaigns of any number of recipients: the status is
\* scheduled iff pending > 0, sent iff nothing is pending or failed and all
\* are sent, failed iff nothing is pending or sent and all failed, partial
\* iff nothing is pending and both sent and failed are positive.
C2_StatusIffAnyCampaign ==
  \A c \in DOMAIN emails :
    LET k == emails[c].counts
        st == emails[c].status
    IN  /\ (st = "scheduled") <=> (k.pending > 0)
        /\ (st = "sent") <=> (k.pending = 0 /\ k.failed = 0 /\ k.sent = k.total)
        /\ (st = "failed") <=> (k.pending = 0 /\ k.sent = 0 /\ k.failed = k.total)
        /\ (st = "partial") <=> (k.pending = 0 /\ k.sent > 0 /\ k.failed > 0)

\* C2 amended: the four equivalences hold for every campaign that has at
\* least one delivery; a campaign without deliveries (scheduled with no
\* recipient) keeps the status scheduled with every count 0.
C2_StatusIffWithDeliveries ==
  \A c \in DOMAIN emails :
    LET k == emails[c].counts
        st == emails[c].status
    IN  IF k.total > 0
        THEN /\ (st = "scheduled") <=> (k.pending > 0)
             /\ (st = "sent") <=> (k.pending = 0 /\ k.failed = 0 /\ k.sent = k.total)
             /\ (st = "failed") <=> (k.pending = 0 /\ k.sent = 0 /\ k.failed = k.total)
             /\ (st = "partial") <=> (k.pending = 0 /\ k.sent > 0 /\ k.failed > 0)
        ELSE st = "scheduled" /\ k.pending = 0 /\ k.sent = 0 /\ k.failed = 0

\* a partial campaign next to a campaign without deliveries
C2_Witness ==
  \E c, e \in DOMAIN emails :
    /\ emails[c].status = "partial"
    /\ emails[e].counts.total = 0
    /\ emails[e].status = "scheduled"

\* C3: every campaign's pending, sent and failed counts are the numbers of
\* its delivery rows with that status, and they add up to its total.
C3_CountsAreTallies ==
  \A c \in DOMAIN emails :
    LET k == emails[c].counts
    IN  /\ k.pending = Rows(c, "pending")
        /\ k.sent = Rows(c, "sent")
        /\ k.failed = Rows(c, "failed")
        /\ k.pending + k.sent + k.failed = k.total

\* a campaign with one delivery of each status, just reported
C3_Witness ==
  /\ last.op = "update_delivery_status"
  /\ \E c \in DOMAIN emails :
       emails[c].counts = [total |-> 3, pending |-> 1, sent |-> 1, failed |-> 1]

\* C4: schedule_email with N recipient ids adds exactly one campaign row,
\* scheduled, without sent_time, counts {N, N, 0, 0}, and exactly N delivery
\* rows, one per recipient id, each pending, without error, carrying the new
\* campaign's id and schedule_time; an id without a profile gets a delivery
\* with null snapshot fields; the id returned is the new campaign row's.
C4_SchedulePost ==
  [][(last'.op = "schedule_email" /\ emails' # emails) =>
       LET newC == (DOMAIN emails') \ (DOMAIN emails)
           newD == (DOMAIN deliveries') \ (DOMAIN deliveries)
       IN  /\ newC = last'.ret
           /\ Cardinality(newC) = 1
           /\ \A c \in DOMAIN emails : emails'[c] = emails[c]
           /\ \A d \in DOMAIN deliveries :
                d \in DOMAIN deliveries' /\ deliveries'[d] = deliveries[d]
           /\ \A c \in newC :
                LET row == emails'[c]
                    N == Len(row.recipients)
                IN  /\ row.status = "scheduled"
                    /\ row.sent_time = NoTime
                    /\ row.counts = [total |-> N, pending |-> N,
                                     sent |-> 0, failed |-> 0]
                    /\ Cardinality(newD) = N
                    /\ \A i \in 1..N : \E d \in newD :
                         deliveries'[d].recipient_id = row.recipients[i]
                    /\ \A d \in newD :
                         LET r == deliveries'[d]
                         IN  /\ r.campaign_id = c
                             /\ r.status = "pending"
                             /\ r.error = Null
                             /\ r.schedule_time = row.schedule_time
                             /\ \E i \in 1..N : r.recipient_id = row.recipients[i]
                             /\ r.recipient_id \notin DOMAIN profiles =>
                                  /\ r.recipient_email = Null
                                  /\ r.recipient_snapshot = [name |-> Null, email |-> Null]
                             /\ r.recipient_id \in DOMAIN profiles =>
                                  /\ r.recipient_email = profiles[r.recipient_id].email
                                  /\ r.recipient_snapshot.name = profiles[r.recipient_id].name]_vars

\* a second campaign just scheduled for three recipients, one without profile
C4_Witness ==
  /\ last.op = "schedule_email"
  /\ \E c \in last.ret :
       /\ c > 1
       /\ emails[c].counts.total = 3
       /\ \E d, e \in DeliveriesOf(deliveries, c) :
            /\ deliveries[d].recipient_email = Null
            /\ deliveries[e].recipient_email # Null

\* C8 as stated: a delivery's status changes only from pending to sent or
\* from pending to failed; a sent or failed delivery keeps its status.
C8_StatusOnlyLeavesPending ==
  [][\A d \in (DOMAIN deliveries) \cap (DOMAIN deliveries') :
       deliveries'[d].status # deliveries[d].status =>
         /\ deliveries[d].status = "pending"
         /\ deliveries'[d].status \in {"sent", "failed"}]_vars

\* C9: a campaign scheduled with N >= 1 recipients, none cancelled: while
\* fewer than N deliveries are reported it is scheduled; once all N are,
\* s sent and f failed in whatever order, its counts are {N, 0, s, f} and
\* its status is sent if f = 0, failed if s = 0, partial otherwise.
C9_FinalAggregate ==
  \A c \in DOMAIN emails :
    LET N == Len(emails[c].recipients)
        s == Rows(c, "sent")
        f == Rows(c, "failed")
    IN  (N >= 1 /\ Cardinality(DeliveriesOf(deliveries, c)) = N) =>
          IF s + f = N
          THEN /\ emails[c].counts = [total |-> N, pending |-> 0,
                                      sent |-> s, failed |-> f]
               /\ emails[c].status = IF f = 0 THEN "sent"
                                     ELSE IF s = 0 THEN "failed" ELSE "partial"
          ELSE emails[c].status = "scheduled"

\* three recipients, two sent and one failed: partial, {3, 0, 2, 1}
C9_Witness ==
  \E c \in DOMAIN emails :
    /\ Len(emails[c].recipients) = 3
    /\ Rows(c, "sent") = 2
    /\ Rows(c, "failed") = 1
    /\ emails[c].status = "partial"
    /\ emails[c].counts = [total |-> 3, pending |-> 0, sent |-> 2, failed |-> 1]

\* C10: delete_scheduled_email(c) removes every pending delivery of c, no
\* sent or failed delivery, and leaves every delivery and campaign row of
\* another campaign as it was.
C10_CancelFrame ==
  [][last'.op = "delete_scheduled_email" =>
       LET c == last'.id
       IN  /\ \A d \in DOMAIN deliveries :
                IF deliveries[d].campaign_id = c /\ deliveries[d].status = "pending"
                THEN d \notin DOMAIN deliveries'
                ELSE d \in DOMAIN deliveries' /\ deliveries'[d] = deliveries[d]
           /\ \A d \in DOMAIN deliveries' : d \in DOMAIN deliveries
           /\ \A o \in (DOMAIN emails) \ {c} :
                o \in DOMAIN emails' /\ emails'[o] = emails[o]]_vars

\* a cancel that removed a pending delivery, kept a reported one of the same
\* campaign and left another campaign's pending delivery in place
C10_Witness ==
  /\ last.op = "delete_scheduled_email"
  /\ last.id \in DOMAIN emails
  /\ Len(emails[last.id].recipients) = 2
  /\ \E d \in DeliveriesOf(deliveries, last.id) : deliveries[d].status # "pending"
  /\ Cardinality(DeliveriesOf(deliveries, last.id)) = 1
  /\ \E d \in DOMAIN deliveries :
       deliveries[d].campaign_id # last.id /\ deliveries[d].status = "pending"

\* C5: schedule_email is one transaction for every reader: the campaign row
\* a page took from the table, even while schedule_email was still
\* inserting, never shows a total different from the number of delivery rows
\* the page then gets for it (unless the campaign was cancelled in between).
C5_NoTornRead ==
  (reader.pc = "done" /\ ~reader.cancelled) => reader.seen = reader.total

\* a page that took the campaign row while deliveries were still to be
\* inserted, and then got all of them
C5_Witness ==
  /\ reader.pc = "done"
  /\ reader.missing >= 2
  /\ ~reader.cancelled
  /\ reader.seen = reader.total
  /\ reader.total = 3

\* C6 as stated: get_due_deliveries returns exactly the pending deliveries
\* whose schedule instant is not later than the instant of the call.
C6_DueIffPendingAndReached ==
  last.op = "get_due_deliveries" =>
    last.ret = {d \in DOMAIN deliveries :
                  /\ deliveries[d].status = "pending"
                  /\ InstantLeq(ParseIsoToUtc(deliveries[d].schedule_time), now)}

\* C7: update_delivery_status on a pending delivery: Sent makes it sent,
\* stamps last_attempt and sent_time, clears error and stores the rendered
\* body; Failed makes it failed, stamps last_attempt, stores the reason (the
\* fallback "send_error" when none is given, never an empty error) and
\* leaves sent_time unset; the campaign's counts and status are those of its
\* deliveries after the call.
C7_ReportPost ==
  [][(/\ last'.op = "update_delivery_status"
      /\ last'.id \in DOMAIN deliveries
      /\ deliveries[last'.id].status = "pending") =>
       LET d == last'.id
           r == deliveries'[d]
           c == r.campaign_id
           at == NowUtcIso(now)
           P == Cardinality({x \in DOMAIN deliveries' :
                  deliveries'[x].campaign_id = c /\ deliveries'[x].status = "pending"})
           S == Cardinality({x \in DOMAIN deliveries' :
                  deliveries'[x].campaign_id = c /\ deliveries'[x].status = "sent"})
           F == Cardinality({x \in DOMAIN deliveries' :
                  deliveries'[x].campaign_id = c /\ deliveries'[x].status = "failed"})
       IN  /\ r.status = last'.status
           /\ r.last_attempt = at
           /\ last'.status = "sent" =>
                /\ r.sent_time = at
                /\ r.error = Null
                /\ r.rendered_body = "rendered"
           /\ last'.status = "failed" =>
                /\ r.sent_time = NoTime
                /\ r.error \notin {Null, ""}
                /\ last'.error \notin {Null, ""} => r.error = last'.error
           /\ \A x \in (DOMAIN deliveries) \ {d} :
                x \in DOMAIN deliveries' /\ deliveries'[x] = deliveries[x]
           /\ emails'[c].counts = [total |-> P + S + F, pending |-> P,
                                   sent |-> S, failed |-> F]
           /\ emails'[c].status =
                IF P > 0 THEN "scheduled"
                ELSE IF F = 0 THEN "sent" ELSE IF S = 0 THEN "failed" ELSE "partial"]_vars

\* a failure reported without a reason after the clock moved: the delivery
\* carries the fallback reason and the stamp of the later instant, and its
\* campaign has become partial
C7_Witness ==
  /\ last.op = "update_delivery_status"
  /\ last.status = "failed"
  /\ last.error = Null
  /\ last.id \in DOMAIN deliveries
  /\ deliveries[last.id].error = "send_error"
  /\ deliveries[last.id].sent_time = NoTime
  /\ deliveries[last.id].last_attempt = IsoFormat([s |-> 0, u |-> 5])
  /\ emails[deliveries[last.id].campaign_id].status = "partial"

\* C11: after delete_scheduled_email(c) the campaign row is gone exactly
\* when no delivery of c is left; a campaign that keeps a sent or failed
\* delivery keeps its row, with pending 0, total the number of deliveries
\* left and the status those deliveries give (all sent: sent, all failed:
\* failed, both: partial).
C11_CancelPost ==
  [][last'.op = "delete_scheduled_email" =>
       LET c == last'.id
           left == {d \in DOMAIN deliveries' : deliveries'[d].campaign_id = c}
           S == Cardinality({d \in left : deliveries'[d].status = "sent"})
           F == Cardinality({d \in left : deliveries'[d].status = "failed"})
       IN  /\ (c \notin DOMAIN emails') <=> (left = {})
           /\ c \in DOMAIN emails' =>
                /\ emails'[c].counts = [total |-> Cardinality(left), pending |-> 0,
                                        sent |-> S, failed |-> F]
                /\ S + F = Cardinality(left)
                /\ emails'[c].status = IF F = 0 THEN "sent"
                                       ELSE IF S = 0 THEN "failed" ELSE "partial"]_vars

\* a campaign of three, cancelled with two pending and one sent: the row is
\* kept, sent, total 1, while a campaign cancelled whole has left the table
C11_Witness ==
  /\ last.op = "delete_scheduled_email"
  /\ last.id \in DOMAIN emails
  /\ Len(emails[last.id].recipients) = 3
  /\ emails[last.id].status = "sent"
  /\ emails[last.id].counts = [total |-> 1, pending |-> 0, sent |-> 1, failed |-> 0]
  /\ \E c \in 1..(nextEmailId - 1) : c \notin DOMAIN emails

\* the delivery rows of campaign c for recipient r
RowsFor(c, r) ==
  {d \in DeliveriesOf(deliveries, c) : deliveries[d].recipient_id = r}

\* C12 as stated: while the worker keeps polling, a delivery that is pending
\* and whose schedule time has come is eventually sent or failed, unless it
\* is cancelled.
C12_DueEventuallyReported ==
  \A d \in 1..MaxDeliveries :
    (/\ d \in DOMAIN deliveries
     /\ deliveries[d].status = "pending"
     /\ InstantLeq(ParseIsoToUtc(deliveries[d].schedule_time), now))
    ~> (d \notin DOMAIN deliveries \/ deliveries[d].status \in {"sent", "failed"})

\* C13 as stated: no delivery is handed to the transport again in a later
\* poll cycle.
C13_TransportedOnce ==
  \A d \in DOMAIN deliveries :
    <<deliveries[d].campaign_id, deliveries[d].recipient_id>> \notin worker.resent

\* C14 as stated: when a poll cycle is over, every recipient with a profile
\* of every campaign that was due at its poll has been handed to the
\* transport, whatever happened to the deliveries before it in the batch.
C14_WholeBatchProcessed ==
  worker.pc = "sleep" =>
    \A k \in 1..Len(worker.due) :
      \A j \in 1..Len(worker.due[k].recipients) :
        worker.due[k].recipients[j] \in DOMAIN profiles =>
          <<worker.due[k].id, worker.due[k].recipients[j]>> \in worker.sent

\* C15 as stated: a recipient the transport refused with a reason code has
\* its delivery failed with that code and counted in counts.failed.
C15_FailureRecorded ==
  \A f \in worker.failures :
    \A d \in RowsFor(f[1], f[2]) :
      /\ deliveries[d].status = "failed"
      /\ deliveries[d].error = f[3]
      /\ emails[f[1]].counts.failed >= 1

\* C16 as stated: a due delivery without a recipient email that the worker
\* has passed is failed with missing_email, and was not handed to the
\* transport.
C16_MissingEmailReported ==
  \A k \in worker.skipped :
    /\ k \notin worker.sent
    /\ \A d \in RowsFor(k[1], k[2]) :
         deliveries[d].recipient_email = Null =>
           /\ deliveries[d].status = "failed"
           /\ deliveries[d].error = "missing_email"

\* C17: whatever is raised during a poll cycle, the worker comes back to the
\* top of its loop: it polls again and again.
C17_AlwaysPollsAgain == []<>(worker.pc = "poll")

\* the worker about to poll after a cycle in which it sent a mail and the
\* status update raised
C17_Witness ==
  /\ worker.pc = "poll"
  /\ worker.caught
  /\ worker.sent # {}

\* update_delivery_status as one indivisible call on the tables em, dl
SerialReport(em, dl, d, status) ==
  IF d \notin DOMAIN dl THEN <<em, dl>>
  ELSE LET dl2 == [dl EXCEPT ![d] = DeliveryPatch(@, status, ErrorFor(status),
                                       RenderedFor(status), NowUtcIso(now))]
       IN  <<RecomputeCampaignAggregates(em, dl2, dl2[d].campaign_id, NowUtcIso(now)),
             dl2>>

\* delete_scheduled_email as one indivisible call on the tables em, dl
SerialCancel(em, dl, c) ==
  IF c \notin DOMAIN em THEN <<em, dl>>
  ELSE LET dl2 == Remove(dl, PendingIds(dl, c))
           em2 == RecomputeCampaignAggregates(em, dl2, c, NowUtcIso(now))
       IN  <<IF DeliveriesOf(dl2, c) = {} THEN Remove(em2, {c}) ELSE em2, dl2>>

\* C18: when a call of either process returns, the tables are what the call
\* as one indivisible step makes of the tables it found on taking the lock
\* (so the calls take effect one after another, in the order they took the
\* lock), and whenever the lock is free every campaign's counts are the
\* tallies of its delivery rows and its status is the one they give.
C18_SerialUnderLock ==
  [][/\ \A p \in Procs :
          (calls[p].pc # "idle" /\ calls'[p].pc = "idle") =>
            LET em == IF calls[p].pc = "issued" THEN emails ELSE calls[p].em
                dl == IF calls[p].pc = "issued" THEN deliveries ELSE calls[p].dl
            IN  <<emails', deliveries'>> =
                  IF calls[p].op = "update_delivery_status"
                  THEN SerialReport(em, dl, calls[p].id, calls[p].status)
                  ELSE SerialCancel(em, dl, calls[p].id)
     /\ lock' = "free" =>
          \A c \in DOMAIN emails' :
            LET rows == {d \in DOMAIN deliveries' : deliveries'[d].campaign_id = c}
                P == Cardinality({d \in rows : deliveries'[d].status = "pending"})
                S == Cardinality({d \in rows : deliveries'[d].status = "sent"})
                F == Cardinality({d \in rows : deliveries'[d].status = "failed"})
            IN  /\ emails'[c].counts = [total |-> Cardinality(rows), pending |-> P,
                                        sent |-> S, failed |-> F]
                /\ P > 0 => emails'[c].status = "scheduled"
                /\ (P = 0 /\ rows # {}) =>
                     emails'[c].status = IF F = 0 THEN "sent"
                                         ELSE IF S = 0 THEN "failed" ELSE "partial"]_vars

\* a cancel by the UI that waited while the worker process reported one of
\* the campaign's two deliveries sent: the campaign is kept, sent, with the
\* one delivery
C18_Witness ==
  /\ last.op = "delete_scheduled_email"
  /\ "raised" \notin DOMAIN last
  /\ calls["worker"].overlap
  /\ calls["ui"].pc = "idle"
  /\ calls["worker"].pc = "idle"
  /\ last.id \in DOMAIN emails
  /\ Len(emails[last.id].recipients) = 2
  /\ emails[last.id].status = "sent"
  /\ emails[last.id].counts = [total |-> 1, pending |-> 0, sent |-> 1, failed |-> 0]

\* C19 as stated: a call with a campaign or delivery id that the table does
\* not hold returns without raising and leaves every campaign and delivery
\* row as it was.
C19_MissingIdNotFound ==
  [][(\/ /\ last'.op = "update_delivery_status"
         /\ last'.id \notin DOMAIN deliveries
      \/ /\ last'.op \in {"get_campaign", "delete_scheduled_email",
                          "set_email_reminder", "clear_email_reminder"}
         /\ last'.id \notin DOMAIN emails) =>
       /\ "raised" \notin DOMAIN last'
       /\ emails' = emails
       /\ deliveries' = deliveries]_vars

\* C20 as stated: a delivery that was not reported is still pending after
\* the worker was stopped and started again, and once the UI process is out
\* of schedule_email, by returning or by stopping, every campaign has as
\* many delivery rows as its counts.total says.
C20_NothingLostByCrash ==
  /\ \A d \in DOMAIN deliveries : deliveries[d].status = "pending"
  /\ sched.pc = "idle" =>
       \A c \in DOMAIN emails :
         /\ emails[c].counts.total = Len(emails[c].recipients)
         /\ Cardinality(DeliveriesOf(deliveries, c)) = emails[c].counts.total

\* the counts a rescan of the delivery rows of campaign c gives
Tallies(dl, c) ==
  [total   |-> Cardinality(DeliveriesOf(dl, c)),
   pending |-> Cardinality(WithStatus(dl, c, "pending")),
   sent    |-> Cardinality(WithStatus(dl, c, "sent")),
   failed  |-> Cardinality(WithStatus(dl, c, "failed"))]

\* C24: the aggregate recomputation is idempotent: run once more on the
\* rows a recomputation has left, at the same or at any later time, with no
\* delivery changed in between, it gives the same counts and the same
\* status.
C24_RecomputeIdempotent ==
  [][last'.op = "_recompute_campaign_aggregates" =>
       \A t \in Instants :
         LET c == last'.id
             again == RecomputeCampaignAggregates(emails', deliveries', c, NowUtcIso(t))
         IN  /\ again[c].counts = emails'[c].counts
             /\ again[c].status = emails'[c].status]_vars

\* a recomputation that found both the counts and the status of the row
\* wrong and replaced them
C24_Witness ==
  /\ last.op = "_recompute_campaign_aggregates"
  /\ probe.f = "dirty"
  /\ 1 \in DOMAIN emails
  /\ emails[1].counts.total # probe.total
  /\ emails[1].status # probe.status
  /\ emails[1].counts.total = probe.rows
  /\ probe.rows > 1

\* C29: whatever counts and status the campaign row held, after
\* update_delivery_status on one of its deliveries its counts are the tallies
\* of its delivery rows and, when none is pending and one exists, its status
\* is the one they give.
C29_RescanCorrects ==
  [][last'.op = "update_delivery_status" =>
       LET c == deliveries'[last'.id].campaign_id
           n == Tallies(deliveries', c)
       IN  /\ emails'[c].counts = n
           /\ (n.pending = 0 /\ n.total > 0) =>
                emails'[c].status =
                  IF n.sent = n.total THEN "sent"
                  ELSE IF n.failed = n.total THEN "failed"
                  ELSE "partial"]_vars

\* a report on a campaign whose row held a wrong total and a wrong status:
\* both are right afterwards
C29_Witness ==
  /\ last.op = "update_delivery_status"
  /\ probe.f = "dirty"
  /\ 1 \in DOMAIN emails
  /\ probe.total # probe.rows
  /\ probe.status = "sent"
  /\ emails[1].counts = Tallies(deliveries, 1)
  /\ emails[1].counts.total = probe.rows
  /\ emails[1].status = "partial"

\* C25: whatever is done to the profiles after a campaign was scheduled
\* (a profile deleted, a profile added, the user's own profile saved), no
\* campaign row and no delivery row changes: recipients, sender snapshot,
\* recipient ids, recipient_email and recipient_snapshot stay as stored.
C25_ProfilesLeaveRows ==
  [][last'.op \in {"delete_profile", "add_profile", "update_user_profile"} =>
       /\ emails' = emails
       /\ deliveries' = deliveries]_vars

\* a campaign waiting with the snapshot of a recipient whose profile is
\* gone, and with the sender as it was before the user saved another one
C25_Witness ==
  /\ last.op = "delete_profile"
  /\ last.id \notin DOMAIN profiles
  /\ \E d \in DOMAIN deliveries :
       /\ deliveries[d].recipient_id = last.id
       /\ deliveries[d].recipient_email = InitialProfiles[last.id].email
       /\ deliveries[d].recipient_snapshot = InitialProfiles[last.id]
       /\ emails[deliveries[d].campaign_id].sender_profile # user

\* C26 as stated: the worker sends to the recipient stored on the delivery:
\* it passes over no recipient whose delivery holds an address, and every
\* mail goes to the address on the delivery row.
C26_SendsToSnapshot ==
  /\ \A k \in worker.skipped :
       \A d \in RowsFor(k[1], k[2]) : deliveries[d].recipient_email = Null
  /\ \A a \in worker.addressed :
       \A d \in RowsFor(a[1], a[2]) : deliveries[d].recipient_email = a[3]

\* the text contains the term as a substring, case ignored
ContainsIgnoringCase(text, term) ==
  \E i \in 1..(Len(text) - Len(term) + 1) :
    \A k \in 1..Len(term) : Lower(term[k]) = Lower(text[i + k - 1])

\* C23 as stated: search_emails(term) returns exactly the campaigns that are
\* sent and whose subject or body contains the term as a substring, case
\* ignored.
C23_SearchIsSubstring ==
  (probe.f = "search_emails" /\ probe.done) =>
    probe.out = {c \in {1} :
                   /\ probe.status = "sent"
                   /\ \/ ContainsIgnoringCase(probe.subject, probe.term)
                      \/ ContainsIgnoringCase(probe.body, probe.term)}

\* the wall-clock hours that occur in a zone
WallExists(tz, w) ==
  \E h \in (w - 12)..(w + 12) : h + UtcOffset(tz, h) = w

\* C27 as stated: every naive local schedule time comes back from
\* to_utc_iso and parse_iso_to_local, done with the same zone, as the
\* wall-clock time it was.
C27_RoundTripAnyNaive ==
  (probe.f = "round_trip" /\ probe.stage = "read") => probe.back = probe.wall

\* C27 amended: every naive local schedule time that occurs in the zone
\* (is not skipped by a change to summer time) comes back from to_utc_iso
\* and parse_iso_to_local, done with the same zone, as the wall-clock time
\* it was.
C27_RoundTripExistingTimes ==
  (probe.f = "round_trip" /\ probe.stage = "read" /\ WallExists(probe.tz, probe.wall.h))
    => probe.back = probe.wall

\* an hour that occurs twice in Europe/Rome, with a fraction of a second,
\* stored as UTC and read back
C27_Witness ==
  /\ probe.f = "round_trip"
  /\ probe.stage = "read"
  /\ probe.tz = "Europe/Rome"
  /\ probe.wall.u # 0
  /\ Cardinality({h \in 0..MaxHour : h + UtcOffset(probe.tz, h) = probe.wall.h}) = 2
  /\ probe.back = probe.wall
  /\ ParseIsoToUtc(Tail(probe.iso)).u = probe.wall.u

\* C28 as stated: the zone get_app_tz returns is the runtime override when
\* one is set, else the timezone saved in the settings table when there is
\* one, else the default; UTC when that name is not a valid zone.
C28_OverrideSavedDefault ==
  settings.resolved # Null =>
    LET tzname == IF settings.runtime # Null THEN settings.runtime
                  ELSE IF settings.saved # Null THEN settings.saved
                  ELSE DefTz
    IN  settings.resolved = IF tzname \in ValidZones THEN tzname ELSE "UTC"

\* C30 as stated: for two timestamps as to_utc_iso and now_utc_iso write
\* them, the first is <= the second as a string exactly when it is not the
\* later instant.
C30_StringOrderIsTimeOrder ==
  (probe.f = "compare" /\ probe.done) =>
    (probe.le <=> InstantLeq(probe.a, probe.b))

\* C31: whatever call is made (report, cancel, set or clear reminder, with
\* the recomputation each runs), every delivery row that is still there
\* afterwards has the schedule_time, campaign_id, recipient_id,
\* recipient_email and recipient_snapshot it had before.
C31_DeliveryIdentityKept ==
  [][\A d \in (DOMAIN deliveries) \cap (DOMAIN deliveries') :
       /\ deliveries'[d].schedule_time = deliveries[d].schedule_time
       /\ deliveries'[d].campaign_id = deliveries[d].campaign_id
       /\ deliveries'[d].recipient_id = deliveries[d].recipient_id
       /\ deliveries'[d].recipient_email = deliveries[d].recipient_email
       /\ deliveries'[d].recipient_snapshot = deliveries[d].recipient_snapshot]_vars

\* a delivery reported failed that still holds its recipient and schedule
\* time, in a campaign that was cancelled in part and had a reminder set
C31_Witness ==
  /\ last.op = "update_delivery_status"
  /\ last.status = "failed"
  /\ last.id \in DOMAIN deliveries
  /\ deliveries[last.id].status = "failed"
  /\ deliveries[last.id].recipient_id \in DOMAIN InitialProfiles
  /\ deliveries[last.id].recipient_email = InitialProfiles[deliveries[last.id].recipient_id].email
  /\ deliveries[last.id].schedule_time = ToUtcIso(now)
  /\ LET c == deliveries[last.id].campaign_id
     IN  /\ emails[c].reminder_date # Null
         /\ Cardinality(DeliveriesOf(deliveries, c)) < Len(emails[c].recipients)

\* C32 as stated: a campaign's sent_time is null while its status is
\* scheduled, is set by the call that brings pending to 0 with a delivery
\* left, and once set is changed by no later call on the campaign.
C32_SentTimeSetOnce ==
  [][\A c \in DOMAIN emails' :
       /\ emails'[c].status = "scheduled" => emails'[c].sent_time = NoTime
       /\ c \in DOMAIN emails =>
            /\ (/\ emails[c].counts.pending > 0
                /\ emails'[c].counts.pending = 0
                /\ emails'[c].counts.total > 0) => emails'[c].sent_time # NoTime
            /\ emails[c].sent_time # NoTime =>
                 emails'[c].sent_time = emails[c].sent_time]_vars

\* C33 as stated: in every state each delivery row has an error exactly when
\* it is failed, a sent_time exactly when it is sent, and no last_attempt
\* exactly when it is pending.
C33_DeliveryFieldsCoherent ==
  \A d \in DOMAIN deliveries :
    /\ deliveries[d].error # Null <=> deliveries[d].status = "failed"
    /\ deliveries[d].sent_time # NoTime <=> deliveries[d].status = "sent"
    /\ deliveries[d].last_attempt = NoTime <=> deliveries[d].status = "pending"

\* C34: after every call each delivery row carries the id of a campaign row
\* that exists, and a delivery row that is still there carries the campaign
\* id it had before.
C34_DeliveryHasCampaign ==
  [][/\ \A d \in DOMAIN deliveries' : deliveries'[d].campaign_id \in DOMAIN emails'
     /\ \A d \in (DOMAIN deliveries) \cap (DOMAIN deliveries') :
          deliveries'[d].campaign_id = deliveries[d].campaign_id]_vars

\* a cancel that took the pending deliveries of a campaign and left its
\* row for the reported one, after another campaign was cancelled whole
C34_Witness ==
  /\ last.op = "delete_scheduled_email"
  /\ last.id \in DOMAIN emails
  /\ emails[last.id].counts.total = 1
  /\ Len(emails[last.id].recipients) = 2
  /\ \E d \in DeliveriesOf(deliveries, last.id) : deliveries[d].status = "failed"
  /\ \E c \in 1..(nextEmailId - 1) : c \notin DOMAIN emails

\* C35 as stated: a delivery that a cancel removed is not handed to the
\* transport afterwards, even when the worker got it in the batch of the
\* cycle it is in: whenever the worker hands a recipient of a campaign to
\* the transport, the delivery row of that recipient is in the store, and
\* no step of the worker puts back a campaign or delivery row.
C35_CancelledNotTransported ==
  [][/\ \A k \in worker'.sent \ worker.sent : RowsFor(k[1], k[2]) # {}
     /\ worker' # worker =>
          /\ DOMAIN emails' \subseteq DOMAIN emails
          /\ DOMAIN deliveries' \subseteq DOMAIN deliveries]_vars

\* C36: schedule_email always returns a campaign id, and the doc ids it
\* gives to the campaign and to its deliveries were never given to a row
\* before, whichever store handle schedules and whatever was canceled in
\* between.
C36_IdsNeverReused ==
  /\ last.op = "schedule_email" => last.ret # {}
  /\ probe.campaignsAgain = {}
  /\ probe.deliveriesAgain = {}

C38_StatusMonotone ==
  [][\A c \in DOMAIN emails \cap DOMAIN emails' :
       /\ emails[c].status # "scheduled" => emails'[c].status # "scheduled"
       /\ emails'[c].counts.total <= emails[c].counts.total]_vars

\* a campaign that a cancel left partial with fewer deliveries than
\* recipients, and whose reminder was cleared afterwards
C38_Witness ==
  /\ last.op = "clear_email_reminder"
  /\ last.id \in DOMAIN emails
  /\ emails[last.id].status = "partial"
  /\ emails[last.id].counts.total < Len(emails[last.id].recipients)

\* C39: the addresses of the profile rows are pairwise distinct and so are
\* the names of the template rows, after any sequence of add and delete
\* calls; an add that returns False leaves its table as it was, and does so
\* exactly when a row with that address or name was there; an add that
\* returns True has put one row under a doc id that was not in use.
C39_KeysDistinct ==
  [][/\ \A p, q \in DOMAIN profiles' :
          profiles'[p].email = profiles'[q].email => p = q
     /\ \A t, u \in DOMAIN templates' :
          templates'[t].name = templates'[u].name => t = u
     /\ (last' # last /\ last'.op = "add_profile") =>
          /\ templates' = templates
          /\ IF last'.status = "False"
             THEN /\ profiles' = profiles
                  /\ Cardinality({profiles[p].email : p \in DOMAIN profiles})
                       = Cardinality(DOMAIN profiles)
             ELSE /\ last'.id \notin DOMAIN profiles
                  /\ DOMAIN profiles' = DOMAIN profiles \cup {last'.id}
                  /\ \A p \in DOMAIN profiles :
                       /\ profiles'[p] = profiles[p]
                       /\ profiles[p].email # profiles'[last'.id].email
     /\ (last' # last /\ last'.op = "add_template") =>
          /\ profiles' = profiles
          /\ IF last'.status = "False"
             THEN templates' = templates
             ELSE /\ last'.id \notin DOMAIN templates
                  /\ DOMAIN templates' = DOMAIN templates \cup {last'.id}
                  /\ \A t \in DOMAIN templates :
                       /\ templates'[t] = templates[t]
                       /\ templates[t].name # templates'[last'.id].name]_vars

\* add_template has just returned False, with both template names and all
\* three addresses in their tables
C39_Witness ==
  /\ last.op = "add_template"
  /\ last.status = "False"
  /\ {templates[t].name : t \in DOMAIN templates} = {"Welcome", "Thanks"}
  /\ Cardinality(DOMAIN profiles) = 3
  /\ \E p \in DOMAIN profiles : profiles[p].email = "bob@example.org"

\* C22: set_email_reminder and clear_email_reminder on an existing campaign
\* change its reminder_date (to the date given, to null) and nothing else in
\* any campaign or delivery row; update_delivery_status, and a
\* delete_scheduled_email that keeps the campaign, leave every reminder_date
\* as it was.
C22_ReminderFrame ==
  [][/\ last'.op = "set_email_reminder" =>
          /\ last'.id \in DOMAIN emails
          /\ \E date \in ReminderDates :
               emails' = [emails EXCEPT ![last'.id].reminder_date = date]
          /\ deliveries' = deliveries
     /\ last'.op = "clear_email_reminder" =>
          /\ last'.id \in DOMAIN emails
          /\ emails' = [emails EXCEPT ![last'.id].reminder_date = Null]
          /\ deliveries' = deliveries
     /\ last'.op \in {"update_delivery_status", "delete_scheduled_email"} =>
          \A c \in DOMAIN emails' :
            /\ c \in DOMAIN emails
            /\ emails'[c].reminder_date = emails[c].reminder_date]_vars

\* a report that finalised a campaign whose reminder was set before, next to
\* a campaign whose reminder was never set
C22_Witness ==
  /\ last.op = "update_delivery_status"
  /\ LET c == deliveries[last.id].campaign_id
     IN  /\ emails[c].status = "sent"
         /\ emails[c].reminder_date \in ReminderDates
         /\ \E o \in DOMAIN emails : emails[o].reminder_date = Null

\* C21: in every poll cycle the worker refreshes its store handle before it
\* queries for due work: no cycle queries through a handle that an earlier
\* cycle has used and that was not reloaded since.
C21_HandleRefreshedBeforePoll ==
  worker.handle # "reused"

====
